---------------------------- MODULE Spec2Model ----------------------------
(***************************************************************************)
(* A model of the geo_qa rule engine: the nine rule functions of           *)
(* geo_qa/rules.py, the LayerQAResult aggregation of geo_qa/models.py and  *)
(* the per-layer orchestrator run_qa_for_layer of geo_qa/arcgis.py.        *)
(*                                                                         *)
(* JSON values coming from the remote service are modelled as tagged       *)
(* records [k, v]: k is the JSON type as Python sees it ("absent" for a    *)
(* missing key, "None" for null, "int", "str"), v the integer payload.     *)
(* A Python exception raised inside a try block is modelled by a fault     *)
(* text: NoFault means the body ran to its return statement.               *)
(***************************************************************************)
EXTENDS Integers, Sequences, FiniteSets, TLC

VARIABLES
    pc,         \* position of run_qa_for_layer (or of the driver of a rule)
    metadata,   \* local `metadata` of run_qa_for_layer
    count,      \* local `count`
    features,   \* local `features`
    result,     \* the LayerQAResult under construction
    calls,      \* external calls issued so far, in order
    escaped,    \* TRUE iff an exception left the function under evaluation
    config,     \* the LayerConfig under evaluation
    now,        \* datetime.now() as read by update_recency, in days
    ret,        \* the value returned by the last direct call of a rule
    fault,      \* the exception raised inside the try block, NoFault if none
    threshold,  \* threshold_months of the last call of update_recency
    args,       \* the parsed command line of the batch driver
    configs,    \* the layer configurations the batch driver loaded
    idx,        \* the position of the batch driver in configs
    results,    \* the results the batch driver collected
    sample_size,       \* sample_features: the number of features asked for
    max_record_count,  \* sample_features: the page size of the service
    offset,            \* sample_features: resultOffset of the next page
    retries,           \* ArcGISClient: the configured number of retries
    attempts,          \* _make_request: the attempts made for one request
    heap,              \* the list objects of the results, by identity
    run_metadata,      \* the PipelineRun the batch driver built
    files              \* the issue files written, by path

\* the state of the batch driver, idle while one layer is evaluated
BatchVars == <<args, configs, idx, results, heap, run_metadata, files>>

\* the state of the HTTP client, idle while no request is modelled
ClientVars == <<sample_size, max_record_count, offset, retries, attempts>>

vars == <<pc, metadata, count, features, result, calls, escaped, config, now,
          ret, fault, threshold, args, configs, idx, results,
          sample_size, max_record_count, offset, retries, attempts, heap,
          run_metadata, files>>

---------------------------------------------------------------------------
(* JSON values as Python sees them *)

JAbsent == [k |-> "absent", v |-> 0]
JNone == [k |-> "None", v |-> 0]
\* a non-empty string; v is its length
JStrLen(n) == [k |-> "str", v |-> n]
JStr == JStrLen(1)
JInt(n) == [k |-> "int", v |-> n]

\* dict.get(key): a missing key reads as None
Get(j) == IF j.k = "absent" THEN JNone ELSE j

\* dict.get(key, default): only a missing key reads as the default
GetDefault(j, d) == IF j.k = "absent" THEN d ELSE j

\* Python truth value of a JSON scalar (strings of the model are non-empty)
Truthy(j) == (j.k = "int" /\ j.v # 0) \/ j.k = "str"

\* Python `a or b`
PyOr(a, b) == IF Truthy(a) THEN a ELSE b

\* str(x) as used inside f-strings ("s" stands for the text of a string)
PyStr(j) ==
    CASE j.k = "int" -> ToString(j.v)
      [] j.k = "str" -> "s"
      [] OTHER -> "None"

NoFault == ""

---------------------------------------------------------------------------
(* models.py: QAStatus, RuleResult *)

PASS == "PASS"
WARN == "WARN"
FAIL == "FAIL"
NA == "NA"
QAStatus == {PASS, WARN, FAIL, NA}

RuleResult(rule_name, status, message, evidence) ==
    [rule_name |-> rule_name, status |-> status, message |-> message,
     evidence |-> evidence]

\* the outcome of a call that raised instead of returning
Raised(err) ==
    [rule_name |-> "<raised>", status |-> "<raised>", message |-> err,
     evidence |-> [raised |-> TRUE]]

\* the evidence dict {}
NoEvidence == [key \in {} |-> TRUE]

\* a rule whose except clause is missing: the exception leaves the rule
NoExcept(rule_name, err) == Raised(err)

\* the except clause of a rule (the same text in rules E to I):
\* status FAIL, message f"Exception: {str(e)}", evidence {"error": str(e)}
Except(rule_name, err) ==
    RuleResult(rule_name, FAIL, "Exception: " \o err, [error |-> err])

NoMetadata == [kind |-> "None"]

---------------------------------------------------------------------------
(* rules.py: rule A, reachability.  The body has no statement that can    *)
(* fault, so the except clause is unreachable.                            *)

check_reachability(md) ==
    IF md.kind # "None"
    THEN RuleResult("reachability", PASS,
                    "Service is reachable and returns metadata",
                    [metadata_exists |-> TRUE])
    ELSE RuleResult("reachability", FAIL,
                    "Cannot fetch metadata from service",
                    [metadata_exists |-> FALSE])

(* rules.py: rule B, queryability *)

\* a queryability for which a layer without count is not queryable
check_queryability_count_only(cnt, md) ==
    IF cnt # JNone
    THEN RuleResult("queryability", PASS,
                    "Layer is queryable (" \o PyStr(cnt) \o " features)",
                    [count |-> cnt, queryable |-> TRUE])
    ELSE RuleResult("queryability", FAIL, "Layer is not queryable",
                    [count |-> JNone, queryable |-> FALSE])

\* a queryability that tests `if count` in place of `if count is not None`
check_queryability_truthy(cnt, md) ==
    IF Truthy(cnt)
    THEN RuleResult("queryability", PASS,
                    "Layer is queryable (" \o PyStr(cnt) \o " features)",
                    [count |-> cnt, queryable |-> TRUE])
    ELSE IF md.kind # "None"
    THEN RuleResult("queryability", WARN,
                    "Metadata exists but query endpoint failed",
                    [count |-> JNone, queryable |-> FALSE])
    ELSE RuleResult("queryability", FAIL, "Layer is not queryable",
                    [count |-> JNone, queryable |-> FALSE])

check_queryability(cnt, md) ==
    IF cnt.k # "None"
    THEN RuleResult("queryability", PASS,
                    "Layer is queryable (" \o PyStr(cnt) \o " features)",
                    [count |-> cnt, queryable |-> TRUE])
    ELSE IF md.kind # "None"
    THEN RuleResult("queryability", WARN,
                    "Metadata exists but query endpoint failed",
                    [count |-> JNone, queryable |-> FALSE])
    ELSE RuleResult("queryability", FAIL, "Layer is not queryable",
                    [count |-> JNone, queryable |-> FALSE])

(* rules.py: rule D, record_availability *)

\* a record_availability for which an empty layer is a failure
check_record_availability_strict(cnt) ==
    IF cnt.k = "None"
    THEN RuleResult("record_availability", WARN,
                    "Cannot determine record count", [count |-> JNone])
    ELSE IF cnt.k = "int" /\ cnt.v = 0
    THEN RuleResult("record_availability", FAIL,
                    "Layer contains no features", [count |-> JInt(0)])
    ELSE RuleResult("record_availability", PASS,
                    "Layer contains " \o PyStr(cnt) \o " features",
                    [count |-> cnt])

check_record_availability(cnt) ==
    IF cnt.k = "None"
    THEN RuleResult("record_availability", WARN,
                    "Cannot determine record count", [count |-> JNone])
    ELSE IF cnt.k = "int" /\ cnt.v = 0
    THEN RuleResult("record_availability", WARN,
                    "Layer contains no features", [count |-> JInt(0)])
    ELSE RuleResult("record_availability", PASS,
                    "Layer contains " \o PyStr(cnt) \o " features",
                    [count |-> cnt])

---------------------------------------------------------------------------
(* The layer metadata dict.  Every key the program reads is a field:       *)
(*   description, capabilities : "absent" (missing or empty) | "str"        *)
(*   geometryType : "absent" | "None" | an esriGeometry... name             *)
(*   extent : "absent" | "None" | "empty" ({}) | "dict"                     *)
(*   spatialReference (inside extent) : "absent" | "None" | "dict"          *)
(*   wkid, latestWkid, wkt (inside spatialReference) : JSON scalars         *)
(*   fields : [k : "absent" | "None" | "list", n : length]                  *)
(*   maxRecordCount : JSON scalar                                           *)
(*   advancedQueryCapabilities : "absent" | "None" | "dict", its two flags  *)
(*   editFieldsInfo : "absent" | "None" | "dict", editDateField inside      *)
(*   editingInfo : "absent" (missing or falsy) | "dict", lastEditDate       *)
(*     inside, a JSON scalar whose integer payload counts days              *)

BaseMetadata ==
    [kind |-> "dict",
     description |-> "absent",
     geometryType |-> "absent",
     extent |-> "absent",
     spatialReference |-> "absent",
     wkid |-> JAbsent,
     latestWkid |-> JAbsent,
     wkt |-> JAbsent,
     fields |-> [k |-> "absent", n |-> 0],
     capabilities |-> "absent",
     maxRecordCount |-> JAbsent,
     advancedQueryCapabilities |-> "absent",
     supportsPagination |-> FALSE,
     supportsQueryWithPagination |-> FALSE,
     editFieldsInfo |-> "absent",
     editDateField |-> "absent",
     editingInfo |-> "absent",
     lastEditDate |-> JAbsent]

AttributeErrorGet == "'NoneType' object has no attribute 'get'"
AttributeErrorReplace == "'NoneType' object has no attribute 'replace'"
TypeErrorLen == "object of type 'NoneType' has no len()"
TypeErrorCompare == "'<=' not supported between instances"
TypeErrorDivide == "unsupported operand type(s) for /: 'str' and 'int'"

---------------------------------------------------------------------------
(* rules.py: rule C, metadata_completeness *)

\* the first statement of the body that raises, if any
CompletenessFault(md) ==
    IF md.fields.k = "None" THEN TypeErrorLen
    ELSE IF md.advancedQueryCapabilities = "None" THEN AttributeErrorGet
    ELSE NoFault

FieldsLen(md) == IF md.fields.k = "list" THEN md.fields.n ELSE 0

PaginationFlag(md) ==
    /\ md.advancedQueryCapabilities = "dict"
    /\ (md.supportsPagination \/ md.supportsQueryWithPagination)

CompletenessComponents(md) ==
    [description |-> md.description = "str",
     geometryType |-> md.geometryType \notin {"absent", "None"},
     extent |-> md.extent = "dict",
     fields |-> FieldsLen(md),
     capabilities |-> md.capabilities = "str",
     maxRecordCount |-> Truthy(md.maxRecordCount),
     pagination |-> PaginationFlag(md)]

\* a score that gives the 20 points of the field list to any non-empty list
CompletenessScoreAnyField(md) ==
    LET c == CompletenessComponents(md) IN
      (IF c.description THEN 10 ELSE 0)
    + (IF c.geometryType THEN 20 ELSE 0)
    + (IF c.extent THEN 20 ELSE 0)
    + (IF c.fields >= 1 THEN 20 ELSE 0)
    + (IF c.capabilities THEN 10 ELSE 0)
    + (IF c.maxRecordCount THEN 10 ELSE 0)
    + (IF c.pagination THEN 10 ELSE 0)

CompletenessScore(md) ==
    LET c == CompletenessComponents(md) IN
      (IF c.description THEN 10 ELSE 0)
    + (IF c.geometryType THEN 20 ELSE 0)
    + (IF c.extent THEN 20 ELSE 0)
    + (IF c.fields >= 3 THEN 20 ELSE 0)
    + (IF c.capabilities THEN 10 ELSE 0)
    + (IF c.maxRecordCount THEN 10 ELSE 0)
    + (IF c.pagination THEN 10 ELSE 0)

CompletenessStatus(score) ==
    IF score >= 70 THEN PASS ELSE IF score >= 40 THEN WARN ELSE FAIL

CompletenessMessage(score) ==
    (IF score >= 70 THEN "Metadata is complete (score: "
     ELSE IF score >= 40 THEN "Metadata is partially complete (score: "
     ELSE "Metadata is incomplete (score: ")
    \o ToString(score) \o "/100)"

check_metadata_completeness(md) ==
    IF md.kind = "None"
    THEN RuleResult("metadata_completeness", FAIL, "No metadata available",
                    [score |-> 0, components |-> NoEvidence])
    ELSE IF CompletenessFault(md) # NoFault
    THEN RuleResult("metadata_completeness", FAIL,
                    "Exception: " \o CompletenessFault(md),
                    [error |-> CompletenessFault(md), score |-> 0])
    ELSE LET score == CompletenessScore(md) IN
         RuleResult("metadata_completeness", CompletenessStatus(score),
                    CompletenessMessage(score),
                    [score |-> score,
                     components |-> CompletenessComponents(md)])

---------------------------------------------------------------------------
(* rules.py: rule E, pagination_support.  `page` is what the one page      *)
(* fetch answers when the rule issues it: [k : "error" | "ok", n : number  *)
(* of records of the page].                                                *)

DefaultMaxRecordCount == 1000

PageLimit(md) == GetDefault(md.maxRecordCount, JInt(DefaultMaxRecordCount))

\* `count <= max_record_count` raises when one is a number and the other is
\* not (the inputs of the model never pair two strings)
PaginationFault(md, cnt) ==
    IF cnt.k = "int" /\ PageLimit(md).k = "int" THEN NoFault
    ELSE TypeErrorCompare

\* a rule that requests the second page whatever the count
PaginationFetchesAlways(md, cnt) ==
    /\ md.kind # "None"
    /\ cnt.k # "None"
    /\ PaginationFault(md, cnt) = NoFault

\* TRUE iff the rule reaches client._make_request
PaginationFetches(md, cnt) ==
    /\ md.kind # "None"
    /\ cnt.k # "None"
    /\ PaginationFault(md, cnt) = NoFault
    /\ cnt.v > PageLimit(md).v

\* a page request that starts over at the first record
PaginationOffsetZero(md) == 0

\* resultOffset of the page request
PaginationOffset(md) == PageLimit(md).v

check_pagination_support(md, cnt, page) ==
    IF md.kind = "None" \/ cnt.k = "None"
    THEN RuleResult("pagination_support", NA,
                    "Cannot test pagination without metadata/count",
                    [pagination_tested |-> FALSE])
    ELSE IF PaginationFault(md, cnt) # NoFault
    THEN Except("pagination_support", PaginationFault(md, cnt))
    ELSE IF cnt.v <= PageLimit(md).v
    THEN RuleResult("pagination_support", NA,
                    "Pagination not needed (count: " \o ToString(cnt.v)
                        \o ", max: " \o ToString(PageLimit(md).v) \o ")",
                    [pagination_tested |-> FALSE, count |-> cnt.v,
                     max |-> PageLimit(md).v])
    ELSE IF page.k = "error"
    THEN RuleResult("pagination_support", FAIL,
                    "Pagination failed: request failed",
                    [pagination_tested |-> TRUE, error |-> "request failed"])
    ELSE IF page.n > 0
    THEN RuleResult("pagination_support", PASS, "Pagination works correctly",
                    [pagination_tested |-> TRUE,
                     second_page_features |-> page.n])
    ELSE RuleResult("pagination_support", WARN,
                    "Pagination may not work (no features on second page)",
                    [pagination_tested |-> TRUE, second_page_features |-> 0])

---------------------------------------------------------------------------
(* Number formatting.  round() and the format specs .0f and .1f round to   *)
(* the nearest, ties to even; on the quotients of the model (sample sizes  *)
(* below 80) the float result equals the exact one.                        *)

RoundHalfEven(n, d) ==
    LET q == n \div d
        r == n % d
    IN IF 2 * r > d THEN q + 1
       ELSE IF 2 * r < d THEN q
       ELSE IF q % 2 = 0 THEN q ELSE q + 1

\* f"{n / d:.0f}"
Fmt0(n, d) ==
    IF n < 0 THEN "-" \o ToString(RoundHalfEven(-n, d))
    ELSE ToString(RoundHalfEven(n, d))

\* f"{n / d:.1f}" for n >= 0
Fmt1(n, d) ==
    LET t == RoundHalfEven(10 * n, d)
    IN ToString(t \div 10) \o "." \o ToString(t % 10)

---------------------------------------------------------------------------
(* rules.py: rule H, update_recency.  Time is counted in days: `now` and   *)
(* the lastEditDate payload are day numbers, so (now - last).days is their *)
(* difference.  The age in months is days / 30.44.                         *)

EditDateField(md) ==
    IF md.editFieldsInfo = "dict" THEN md.editDateField ELSE "absent"

LastEditMs(md) ==
    IF md.editingInfo = "dict" THEN Get(md.lastEditDate) ELSE JNone

\* the first statement of the body that raises, if any: edit_info.get on
\* None, then last_edit_ms / 1000 on a timestamp that is no number (the
\* division is reached only with a truthy timestamp)
RecencyFault(md) ==
    IF md.editFieldsInfo = "None" THEN AttributeErrorGet
    ELSE IF Truthy(LastEditMs(md)) /\ LastEditMs(md).k # "int"
    THEN TypeErrorDivide
    ELSE NoFault

\* last_edit_date.isoformat(): the text of a date, one per day
IsoDate(day) == [k |-> "date", v |-> day]

\* an age that warns as soon as it reaches the threshold
OlderThanOrEqual(days, threshold_months) == days * 100 >= threshold_months * 3044

\* age_months > threshold_months, with age_months = days / 30.44
OlderThan(days, threshold_months) == days * 100 > threshold_months * 3044

check_update_recency(md, threshold_months, now_day) ==
    IF md.kind = "None"
    THEN RuleResult("update_recency", NA, "No metadata available",
                    NoEvidence)
    ELSE IF RecencyFault(md) # NoFault
    THEN Except("update_recency", RecencyFault(md))
    ELSE IF ~Truthy(LastEditMs(md)) /\ EditDateField(md) = "absent"
    THEN RuleResult("update_recency", NA,
                    "No last edit date available in metadata",
                    NoEvidence)
    ELSE IF ~Truthy(LastEditMs(md))
    THEN RuleResult("update_recency", NA,
                    "Last edit date field 's' found but no timestamp in metadata",
                    [edit_field |-> EditDateField(md)])
    ELSE LET days == now_day - LastEditMs(md).v
             ev == [last_edit_date |-> IsoDate(LastEditMs(md).v),
                    months_old |-> IF days >= 0
                                   THEN RoundHalfEven(days * 1000, 3044)
                                   ELSE 0 - RoundHalfEven((0 - days) * 1000, 3044),
                    threshold_months |-> threshold_months]
         IN IF OlderThan(days, threshold_months)
            THEN RuleResult("update_recency", WARN,
                            "Layer not updated in " \o Fmt0(days * 100, 3044)
                                \o " months (threshold: "
                                \o ToString(threshold_months) \o ")",
                            ev)
            ELSE RuleResult("update_recency", PASS,
                            "Layer recently updated ("
                                \o Fmt0(days * 100, 3044) \o " months ago)",
                            ev)

---------------------------------------------------------------------------
(* rules.py: rule I, spatial_reference *)

TypeErrorSubscript == "'int' object is not subscriptable"

\* metadata.get("extent", {}).get("spatialReference", {}) is a dict
HasSpatialRef(md) == md.extent = "dict" /\ md.spatialReference = "dict"

\* an identifier read from wkid alone
WkidOnly(md) == IF HasSpatialRef(md) THEN Get(md.wkid) ELSE JNone

\* spatial_ref.get("wkid") or spatial_ref.get("latestWkid")
Wkid(md) ==
    IF HasSpatialRef(md) THEN PyOr(Get(md.wkid), Get(md.latestWkid))
    ELSE JNone

Wkt(md) == IF HasSpatialRef(md) THEN Get(md.wkt) ELSE JNone

\* the first statement of the body that raises, if any: a .get on None,
\* then wkt_str[:200] on a wkt that is a non-zero number
SpatialRefFault(md) ==
    IF md.extent = "None" THEN AttributeErrorGet
    ELSE IF md.extent = "dict" /\ md.spatialReference = "None"
    THEN AttributeErrorGet
    ELSE IF Wkt(md).k = "int" /\ Wkt(md).v # 0 THEN TypeErrorSubscript
    ELSE NoFault

common_wkids == {4326, 3857, 2263, 2264, 26918, 26919}

Min(a, b) == IF a < b THEN a ELSE b

check_spatial_reference(md) ==
    IF md.kind = "None"
    THEN RuleResult("spatial_reference", NA, "No metadata available",
                    NoEvidence)
    ELSE IF SpatialRefFault(md) # NoFault
    THEN Except("spatial_reference", SpatialRefFault(md))
    ELSE LET wkid == Wkid(md)
             ev == [wkid |-> wkid,
                    wkt |-> IF Truthy(Wkt(md))
                            THEN JStrLen(Min(Wkt(md).v, 200)) ELSE JNone]
         IN IF ~Truthy(wkid) /\ ~Truthy(Wkt(md))
            THEN RuleResult("spatial_reference", WARN,
                            "No spatial reference information found", ev)
            ELSE IF Truthy(wkid) /\ ~(wkid.k = "int" /\ wkid.v \in common_wkids)
            THEN RuleResult("spatial_reference", WARN,
                            "Unusual spatial reference (WKID: "
                                \o PyStr(wkid) \o ")", ev)
            ELSE RuleResult("spatial_reference", PASS,
                            "Spatial reference present (WKID: "
                                \o PyStr(wkid) \o ")", ev)

---------------------------------------------------------------------------
(* The feature sample.  `features` is [isNone, items]: None, or the list   *)
(* items.  A feature is [kind, geometry, attributes]:                      *)
(*   kind : "dict" | "bad" (a list element that is no dict)                *)
(*   geometry : [k, type, valid] with k = "absent" (missing, null or {}), *)
(*     "emptydict" (a dict whose values are all empty), "nondict" (a       *)
(*     non-empty value that is no dict), "unparseable" (a dict shapely's   *)
(*     shape() rejects) or "parsed" (then type is the shapely geom_type in *)
(*     lower case and valid its is_valid)                                  *)
(*   attributes : the attribute dict, a function column -> "val" | "null"  *)
(*     (the empty function when the key is missing)                        *)

NoFeatures == [isNone |-> TRUE, items |-> <<>>]
FeatureList(items) == [isNone |-> FALSE, items |-> items]

\* Python `not features`
NotFeatures(fs) == fs.isNone \/ fs.items = <<>>

Feature(geometry, attributes) ==
    [kind |-> "dict", geometry |-> geometry, attributes |-> attributes]

Geom(k) == [k |-> k, type |-> "", valid |-> FALSE]
Parsed(type, valid) == [k |-> "parsed", type |-> type, valid |-> valid]

BadFeature == [kind |-> "bad", geometry |-> Geom("absent"), attributes |-> NoEvidence]

AttributeErrorFeature == "'NoneType' object has no attribute 'get'"

\* the feature.get(...) of the first list element that is no dict raises
FeatureFault(fs) ==
    IF \E i \in 1..Len(fs.items) : fs.items[i].kind = "bad"
    THEN AttributeErrorFeature ELSE NoFault

---------------------------------------------------------------------------
(* rules.py: rule F, schema_sanity.  The DataFrame built from the list of  *)
(* attribute dicts has one column per key that occurs in any row, and a    *)
(* cell is null when its row has the key with a null or lacks the key.     *)

Columns(fs) == UNION {DOMAIN fs.items[i].attributes : i \in 1..Len(fs.items)}

\* df.columns[df.columns.duplicated()]: keys of dicts never repeat
DuplicateCols(fs) == {}

\* "OBJECTID" in col.upper() or "FID" in col.upper() or "OID" in col.upper()
IsObjectIdLike(col) == col \in {"OBJECTID", "fid", "ParcelOID", "VOID"}

IsNullCell(fs, i, col) ==
    \/ col \notin DOMAIN fs.items[i].attributes
    \/ fs.items[i].attributes[col] = "null"

NullCount(fs, col) ==
    Cardinality({i \in 1..Len(fs.items) : IsNullCell(fs, i, col)})

\* fields whose null rate reaches 80% without exceeding it count as well
HighNullFieldsFrom80(fs) ==
    {col \in Columns(fs) : NullCount(fs, col) * 10 >= 8 * Len(fs.items)}

\* null_pcts[null_pcts > 0.8]
HighNullFields(fs) ==
    {col \in Columns(fs) : NullCount(fs, col) * 10 > 8 * Len(fs.items)}

SchemaMessage(fs) ==
    LET n == Cardinality(HighNullFields(fs))
        noid == {c \in Columns(fs) : IsObjectIdLike(c)} = {}
        high == ToString(n) \o " fields have >80% nulls"
    IN IF DuplicateCols(fs) # {} \/ n >= 5
       THEN (IF noid THEN "No OBJECTID-like field found; " \o high ELSE high)
       ELSE "Schema appears healthy"

\* an evidence that counts the mostly-null fields however few they are
SchemaEvidenceCountsAll(fs) ==
    LET ids == {c \in Columns(fs) : IsObjectIdLike(c)}
        high == HighNullFields(fs)
    IN [has_objectid |-> ids # {}, objectid_fields |-> ids,
        total_fields |-> Cardinality(Columns(fs)),
        sample_size |-> Len(fs.items),
        high_null_fields |-> high,
        high_null_count |-> Cardinality(high)]

SchemaEvidence(fs) ==
    LET ids == {c \in Columns(fs) : IsObjectIdLike(c)}
        high == HighNullFields(fs)
        base == [has_objectid |-> ids # {}, objectid_fields |-> ids,
                 total_fields |-> Cardinality(Columns(fs)),
                 sample_size |-> Len(fs.items)]
    IN IF Cardinality(high) >= 5
       THEN [has_objectid |-> base.has_objectid,
             objectid_fields |-> base.objectid_fields,
             total_fields |-> base.total_fields,
             sample_size |-> base.sample_size,
             high_null_fields |-> high,
             high_null_count |-> Cardinality(high)]
       ELSE base

check_schema_sanity(fs) ==
    IF NotFeatures(fs)
    THEN RuleResult("schema_sanity", NA,
                    "No features available for schema check", NoEvidence)
    ELSE IF FeatureFault(fs) # NoFault
    THEN Except("schema_sanity", FeatureFault(fs))
    ELSE IF Columns(fs) = {}
    THEN RuleResult("schema_sanity", WARN, "Empty attribute table", NoEvidence)
    ELSE RuleResult("schema_sanity",
                    IF DuplicateCols(fs) # {}
                       \/ Cardinality(HighNullFields(fs)) >= 5
                    THEN WARN ELSE PASS,
                    SchemaMessage(fs), SchemaEvidence(fs))

---------------------------------------------------------------------------
(* rules.py: rule G, geometry_sanity *)

\* config.expected_geometry.lower()
Lower(expected) ==
    CASE expected = "Point" -> "point"
      [] expected = "Line" -> "line"
      [] expected = "Polygon" -> "polygon"
      [] expected = "Unknown" -> "unknown"
      [] OTHER -> expected

TypeMismatch(expected, geom_type) ==
    IF Lower(expected) \in {"point", "multipoint"}
    THEN geom_type \notin {"point", "multipoint"}
    ELSE IF Lower(expected) \in {"line", "linestring", "multilinestring"}
    THEN geom_type \notin {"linestring", "multilinestring"}
    ELSE IF Lower(expected) \in {"polygon", "multipolygon"}
    THEN geom_type \notin {"polygon", "multipolygon"}
    ELSE FALSE

ZeroCounts == [total |-> 0, empty |-> 0, invalid |-> 0, mismatch |-> 0]

\* one iteration of `for feature in features`
GeomStep(c, feature, expected) ==
    LET g == feature.geometry
        n == [c EXCEPT !.total = @ + 1]
    IN IF g.k \in {"absent", "emptydict"} THEN [n EXCEPT !.empty = @ + 1]
       ELSE IF g.k = "nondict" THEN n
       ELSE IF g.k = "unparseable" THEN [n EXCEPT !.invalid = @ + 1]
       ELSE [n EXCEPT
               !.invalid = IF g.valid THEN @ ELSE @ + 1,
               !.mismatch = IF TypeMismatch(expected, g.type) THEN @ + 1 ELSE @]

RECURSIVE GeometryCounts(_, _)
GeometryCounts(items, expected) ==
    IF items = <<>> THEN ZeroCounts
    ELSE GeomStep(GeometryCounts(SubSeq(items, 1, Len(items) - 1), expected),
                  items[Len(items)], expected)

\* a verdict that lets a frequent type mismatch fail the rule
GeometryStatusMismatchFails(c) ==
    IF c.empty * 100 > 25 * c.total \/ c.invalid * 100 > 25 * c.total
       \/ c.mismatch * 100 > 25 * c.total
    THEN FAIL
    ELSE IF c.empty * 100 > 5 * c.total \/ c.invalid * 100 > 5 * c.total
    THEN WARN
    ELSE IF c.mismatch * 100 > 10 * c.total THEN WARN
    ELSE PASS

\* the percentages are count / total * 100; a comparison pct > t is
\* count * 100 > t * total
GeometryStatus(c) ==
    IF c.empty * 100 > 25 * c.total \/ c.invalid * 100 > 25 * c.total THEN FAIL
    ELSE IF c.empty * 100 > 5 * c.total \/ c.invalid * 100 > 5 * c.total
    THEN WARN
    ELSE IF c.mismatch * 100 > 10 * c.total THEN WARN
    ELSE PASS

GeometryMessage(c) ==
    IF c.empty * 100 > 25 * c.total \/ c.invalid * 100 > 25 * c.total
    THEN "Geometry issues: " \o Fmt1(c.empty * 100, c.total) \o "% empty, "
             \o Fmt1(c.invalid * 100, c.total) \o "% invalid"
    ELSE IF c.empty * 100 > 5 * c.total \/ c.invalid * 100 > 5 * c.total
    THEN "Some geometry issues: " \o Fmt1(c.empty * 100, c.total)
             \o "% empty, " \o Fmt1(c.invalid * 100, c.total) \o "% invalid"
    ELSE IF c.mismatch * 100 > 10 * c.total
    THEN "Geometry type mismatch: " \o Fmt1(c.mismatch * 100, c.total) \o "%"
    ELSE "Geometry appears healthy"

\* the percentages of the evidence are hundredths of a percent: round(pct, 2)
GeometryEvidence(c) ==
    [total_features |-> c.total,
     empty_count |-> c.empty,
     invalid_count |-> c.invalid,
     type_mismatch_count |-> c.mismatch,
     pct_empty |-> RoundHalfEven(c.empty * 10000, c.total),
     pct_invalid |-> RoundHalfEven(c.invalid * 10000, c.total),
     pct_mismatch |-> RoundHalfEven(c.mismatch * 10000, c.total)]

check_geometry_sanity(fs, expected) ==
    IF NotFeatures(fs)
    THEN RuleResult("geometry_sanity", NA,
                    "No features available for geometry check", NoEvidence)
    ELSE IF FeatureFault(fs) # NoFault
    THEN Except("geometry_sanity", FeatureFault(fs))
    ELSE LET c == GeometryCounts(fs.items, expected)
         IN RuleResult("geometry_sanity", GeometryStatus(c),
                       GeometryMessage(c), GeometryEvidence(c))

---------------------------------------------------------------------------
(* models.py: LayerConfig, LayerQAResult *)

LayerConfig(layer_name, expected_geometry) ==
    [layer_name |-> layer_name, service_url |-> "http://" \o layer_name,
     expected_geometry |-> expected_geometry]

\* LayerQAResult(layer_name=..., service_url=..., expected_geometry=...):
\* every other field takes its declared default
NewResult(cfg) ==
    [layer_name |-> cfg.layer_name,
     service_url |-> cfg.service_url,
     overall_status |-> FAIL,
     reachable |-> FALSE,
     count_estimate |-> JNone,
     geometry_type_reported |-> "None",
     expected_geometry |-> cfg.expected_geometry,
     max_record_count |-> JNone,
     metadata_score |-> 0,
     pagination_ok |-> "NA",
     null_fields_over_80pct |-> 0,
     pct_invalid_geometry |-> 0,
     pct_empty_geometry |-> 0,
     last_edit_date |-> JNone,
     format_supported |-> "unknown",
     spatial_reference_wkid |-> JNone,
     rule_results |-> <<>>,
     errors |-> <<>>,
     top_issues |-> "",
     raw_metadata |-> NoMetadata]

\* sep.join(parts)
RECURSIVE Join(_, _)
Join(parts, sep) ==
    IF parts = <<>> THEN ""
    ELSE IF Len(parts) = 1 THEN parts[1]
    ELSE parts[1] \o sep \o Join(Tail(parts), sep)

\* issues[:n]
Take(seq, n) == SubSeq(seq, 1, Min(n, Len(seq)))

\* the list `issues` of compute_top_issues
RECURSIVE Issues(_)
Issues(rule_results) ==
    IF rule_results = <<>> THEN <<>>
    ELSE LET r == Head(rule_results)
         IN (IF r.status \in {FAIL, WARN}
             THEN <<r.rule_name \o ": " \o r.message>> ELSE <<>>)
            \o Issues(Tail(rule_results))

\* a digest that forgets the limit of three
compute_top_issues_unlimited(res) == Join(Issues(res.rule_results), "; ")

compute_top_issues(res) == Join(Take(Issues(res.rule_results), 3), "; ")

\* an aggregation for which a layer without a verdict is NA
aggregate_status_na(res) ==
    IF ~res.reachable THEN FAIL
    ELSE LET statuses == {res.rule_results[i].status :
                             i \in 1..Len(res.rule_results)}
         IN IF FAIL \in statuses THEN FAIL
            ELSE IF WARN \in statuses THEN WARN
            ELSE IF NA \in statuses THEN NA
            ELSE PASS

\* an aggregation that looks for WARN before FAIL
aggregate_status_warn_first(res) ==
    IF ~res.reachable THEN FAIL
    ELSE LET statuses == {res.rule_results[i].status :
                             i \in 1..Len(res.rule_results)}
         IN IF WARN \in statuses THEN WARN
            ELSE IF FAIL \in statuses THEN FAIL
            ELSE PASS

aggregate_status(res) ==
    IF ~res.reachable THEN FAIL
    ELSE LET statuses == {res.rule_results[i].status :
                             i \in 1..Len(res.rule_results)}
         IN IF FAIL \in statuses THEN FAIL
            ELSE IF WARN \in statuses THEN WARN
            ELSE PASS

\* a lookup that never finds the key
EvGetNever(evidence, key, default) == default

\* evidence.get(key, default)
EvGet(evidence, key, default) ==
    IF key \in DOMAIN evidence THEN evidence[key] ELSE default

---------------------------------------------------------------------------
(* Inputs of the orchestrated run: what the collaborators may answer.      *)

Today == 1000
DefaultThresholdMonths == 24

\* datetime.now(): the day on which rule H may run
Clock == {Today - 1, Today}

OrchConfigs == {LayerConfig("parcels", "Polygon"), LayerConfig("sites", "Unknown")}

OrchMetadata ==
    {[BaseMetadata EXCEPT
        !.description = "str",
        !.capabilities = "str",
        !.geometryType = gt,
        !.extent = ex[1],
        !.spatialReference = ex[2],
        !.wkid = ex[3],
        !.fields = fl,
        !.maxRecordCount = mrc,
        !.editingInfo = ed[1],
        !.lastEditDate = ed[2]] :
        gt \in {"esriGeometryPolygon", "None"},
        ex \in {<<"dict", "dict", JInt(4326)>>, <<"None", "absent", JAbsent>>,
                <<"absent", "absent", JAbsent>>},
        fl \in {[k |-> "list", n |-> 3], [k |-> "None", n |-> 0]},
        mrc \in {JAbsent, JInt(2), JNone},
        ed \in {<<"absent", JAbsent>>, <<"dict", JInt(Today - 731)>>}}

OrchCounts == {JNone, JInt(0), JInt(2), JInt(3), JInt(1001), JStr}

GoodRow == [c \in {"OBJECTID", "NAME"} |-> "val"]
SparseRow ==
    [c \in {"A", "B", "C", "D", "E", "NAME"} |-> IF c = "NAME" THEN "val" ELSE "null"]

FourNullRow ==
    [c \in {"A", "B", "C", "D", "fid"} |-> IF c = "fid" THEN "val" ELSE "null"]

OrchSamples ==
    {NoFeatures,
     FeatureList(<<>>),
     FeatureList(<<Feature(Parsed("polygon", TRUE), GoodRow)>>),
     FeatureList(<<Feature(Parsed("point", TRUE), GoodRow),
                   Feature(Geom("absent"), GoodRow)>>),
     FeatureList(<<Feature(Geom("unparseable"), SparseRow)>>),
     FeatureList(<<Feature(Parsed("polygon", TRUE), FourNullRow)>>),
     FeatureList(<<BadFeature>>)}

\* the page argument of a call of rule E that issues no request
NoPage == [k |-> "none", n |-> 0]

OrchPages == {[k |-> "error", n |-> 0], [k |-> "ok", n |-> 0], [k |-> "ok", n |-> 1]}

\* how the page request ended: it raised, or its "features" list was empty
\* or held records
PageOutcome(page) ==
    IF page.k = "error" THEN "raise"
    ELSE IF page.n = 0 THEN "empty" ELSE "records"

\* an external call: the operation, its argument (the offset of a page
\* request, the sample size of a sample request) and how it ended
Call(op, arg, outcome) == [op |-> op, arg |-> arg, outcome |-> outcome]

---------------------------------------------------------------------------
(* arcgis.py: run_qa_for_layer *)

\* a run_qa_for_layer without its except clause: the exception propagates
CatchNothing(res, err) == [result |-> res, escaped |-> TRUE]

\* the except clause of run_qa_for_layer
Catch(res, err) ==
    [result |-> [res EXCEPT !.errors = Append(@, "Unexpected error: " \o err),
                            !.overall_status = FAIL],
     escaped |-> FALSE]

CollaboratorError == "collaborator raised"

\* an exception raised at some line of the try block: the except clause runs
\* and the function returns
Raise(res, f) ==
    /\ result' = Catch(res, f).result
    /\ escaped' = Catch(res, f).escaped
    /\ fault' = f
    /\ pc' = "done"

\* an unreachable branch that goes on to the next rule instead of returning
UnreachableRunsOn(res) ==
    [res EXCEPT
       !.reachable = FALSE,
       !.overall_status = FAIL,
       !.errors = Append(@, "Failed to fetch metadata"),
       !.rule_results = Append(Append(@, check_reachability(NoMetadata)),
                               check_queryability(JNone, NoMetadata))]

\* an unreachable branch that files the layer as a warning
UnreachableWarns(res) ==
    [res EXCEPT
       !.reachable = FALSE,
       !.overall_status = WARN,
       !.errors = Append(@, "Failed to fetch metadata"),
       !.rule_results = Append(@, check_reachability(NoMetadata))]

\* lines 313-316: the result of an unreachable layer
Unreachable(res) ==
    [res EXCEPT
       !.reachable = FALSE,
       !.overall_status = FAIL,
       !.errors = Append(@, "Failed to fetch metadata"),
       !.rule_results = Append(@, check_reachability(NoMetadata))]

\* metadata.get("geometryType", "").replace("esriGeometry", "")
GeometryTypeReported(gt) ==
    CASE gt = "absent" -> ""
      [] gt = "esriGeometryPoint" -> "Point"
      [] gt = "esriGeometryPolyline" -> "Polyline"
      [] gt = "esriGeometryPolygon" -> "Polygon"
      [] OTHER -> gt

\* Step 1: fetch the metadata; None ends the evaluation
FetchMetadata ==
    /\ pc = "start"
    /\ \/ \E md \in OrchMetadata :
            /\ metadata' = md
            /\ calls' = Append(calls, Call("fetch_metadata", 0, "value"))
            /\ pc' = "extract"
            /\ UNCHANGED <<result, escaped, fault>>
       \/ /\ metadata' = NoMetadata
          /\ calls' = Append(calls, Call("fetch_metadata", 0, "None"))
          /\ result' = Unreachable(result)
          /\ pc' = "done"
          /\ UNCHANGED <<escaped, fault>>
       \/ /\ calls' = Append(calls, Call("fetch_metadata", 0, "raise"))
          /\ Raise(result, CollaboratorError)
          /\ UNCHANGED metadata
    /\ UNCHANGED <<count, features, config, now, ret>>
    /\ UNCHANGED <<threshold, BatchVars, ClientVars>>

\* the key metadata fields copied to the result
ExtractFields ==
    /\ pc = "extract"
    /\ LET r1 == [result EXCEPT !.reachable = TRUE, !.raw_metadata = metadata]
           r2 == [r1 EXCEPT
                    !.geometry_type_reported =
                        GeometryTypeReported(metadata.geometryType),
                    !.max_record_count = Get(metadata.maxRecordCount)]
           r3 == [r2 EXCEPT !.spatial_reference_wkid = Wkid(metadata)]
       IN IF metadata.geometryType = "None"
          THEN Raise(r1, AttributeErrorReplace)
          ELSE IF SpatialRefFault(metadata) # NoFault
          THEN Raise(r2, SpatialRefFault(metadata))
          ELSE /\ result' = r3
               /\ pc' = "count"
               /\ UNCHANGED <<escaped, fault>>
    /\ UNCHANGED <<metadata, count, features, calls, config, now, ret>>
    /\ UNCHANGED <<threshold, BatchVars, ClientVars>>

\* Step 2: count the features
CountFeatures ==
    /\ pc = "count"
    /\ \/ \E c \in OrchCounts :
            /\ count' = c
            /\ calls' = Append(calls, Call("count_features", 0,
                                           IF c = JNone THEN "None" ELSE "value"))
            /\ result' = [result EXCEPT !.count_estimate = c]
            /\ pc' = "sample"
            /\ UNCHANGED <<escaped, fault>>
       \/ /\ calls' = Append(calls, Call("count_features", 0, "raise"))
          /\ Raise(result, CollaboratorError)
          /\ UNCHANGED count
    /\ UNCHANGED <<metadata, features, config, now, ret>>
    /\ UNCHANGED <<threshold, BatchVars, ClientVars>>

TypeErrorGreater == "'>' not supported between instances of 'str' and 'int'"

DefaultSampleSize == 200

\* a sampling condition `count is not None` in place of the one of line 338
SampleDecisionNotNone(cnt) ==
    IF cnt.k = "None" THEN "skip"
    ELSE IF cnt.k # "int" THEN "raise"
    ELSE "sample"

\* line 338, `if count and count > 0`: the sample is skipped, the comparison
\* raises, or the sample is requested
SampleDecision(cnt) ==
    IF ~Truthy(cnt) THEN "skip"
    ELSE IF cnt.k # "int" THEN "raise"
    ELSE IF cnt.v > 0 THEN "sample"
    ELSE "skip"

\* Step 3: `if count and count > 0`, sample the features
SampleFeatures ==
    /\ pc = "sample"
    /\ IF SampleDecision(count) = "raise"
       THEN /\ Raise(result, TypeErrorGreater)
            /\ UNCHANGED <<features, calls>>
       ELSE IF SampleDecision(count) = "sample"
       THEN \/ \E fs \in OrchSamples :
                 /\ features' = fs
                 /\ calls' = Append(calls,
                                    Call("sample_features", DefaultSampleSize,
                                         IF fs.isNone THEN "None" ELSE "value"))
                 /\ pc' = "format"
                 /\ UNCHANGED <<result, escaped, fault>>
            \/ /\ calls' = Append(calls, Call("sample_features",
                                              DefaultSampleSize, "raise"))
               /\ Raise(result, CollaboratorError)
               /\ UNCHANGED features
       ELSE /\ features' = NoFeatures
            /\ pc' = "format"
            /\ UNCHANGED <<result, escaped, fault, calls>>
    /\ UNCHANGED <<metadata, count, config, now, ret>>
    /\ UNCHANGED <<threshold, BatchVars, ClientVars>>

\* arcgis.py: the value determine_format_support derives from its two probes
FormatSupport(supports_geojson, supports_pjson) ==
    IF supports_geojson /\ supports_pjson THEN "both"
    ELSE IF supports_geojson THEN "geojson"
    ELSE IF supports_pjson THEN "pjson"
    ELSE "unknown"

\* a probe whose "unknown" outcome is also judged, as a tenth rule result
DetermineFormatJudged ==
    /\ pc = "format"
    /\ \E g \in BOOLEAN, pj \in BOOLEAN :
         LET fmt == IF g /\ pj THEN "both"
                    ELSE IF g THEN "geojson"
                    ELSE IF pj THEN "pjson" ELSE "unknown"
             r == [result EXCEPT !.format_supported = fmt]
         IN result' = IF fmt = "unknown"
                      THEN [r EXCEPT !.rule_results =
                              Append(@, RuleResult("format_support", WARN,
                                                   "No output format", <<>>))]
                      ELSE r
    /\ calls' = Append(calls, Call("determine_format_support", 0, "value"))
    /\ pc' = "ruleA"
    /\ UNCHANGED <<metadata, count, features, escaped, config, now, ret, fault>>
    /\ UNCHANGED <<threshold, BatchVars, ClientVars>>

\* Step 4: probe the output formats
DetermineFormat ==
    /\ pc = "format"
    /\ \/ \E g \in BOOLEAN, pj \in BOOLEAN :
            /\ result' = [result EXCEPT !.format_supported = FormatSupport(g, pj)]
            /\ calls' = Append(calls, Call("determine_format_support", 0, "value"))
            /\ pc' = "ruleA"
            /\ UNCHANGED <<escaped, fault>>
       \/ /\ calls' = Append(calls, Call("determine_format_support", 0, "raise"))
          /\ Raise(result, CollaboratorError)
    /\ UNCHANGED <<metadata, count, features, config, now, ret>>
    /\ UNCHANGED <<threshold, BatchVars, ClientVars>>

\* the rule names in the order run_qa_for_layer evaluates the rules
RuleNames ==
    <<"reachability", "queryability", "metadata_completeness",
      "record_availability", "pagination_support", "schema_sanity",
      "geometry_sanity", "update_recency", "spatial_reference">>

\* a rule list that grows at its head
PrependRule(res, r) == [res EXCEPT !.rule_results = <<r>> \o @]

\* Step 5: the nine rules, in the order of the code
AppendRule(res, r) == [res EXCEPT !.rule_results = Append(@, r)]

RuleA ==
    /\ pc = "ruleA"
    /\ result' = AppendRule(result, check_reachability(metadata))
    /\ pc' = "ruleB"
    /\ UNCHANGED <<metadata, count, features, calls, escaped, config, now, ret, fault>>
    /\ UNCHANGED <<threshold, BatchVars, ClientVars>>

RuleB ==
    /\ pc = "ruleB"
    /\ result' = AppendRule(result, check_queryability(count, metadata))
    /\ pc' = "ruleC"
    /\ UNCHANGED <<metadata, count, features, calls, escaped, config, now, ret, fault>>
    /\ UNCHANGED <<threshold, BatchVars, ClientVars>>

RuleC ==
    /\ pc = "ruleC"
    /\ LET r == check_metadata_completeness(metadata)
       IN result' = [AppendRule(result, r) EXCEPT
                       !.metadata_score = EvGet(r.evidence, "score", 0)]
    /\ pc' = "ruleD"
    /\ UNCHANGED <<metadata, count, features, calls, escaped, config, now, ret, fault>>
    /\ UNCHANGED <<threshold, BatchVars, ClientVars>>

RuleD ==
    /\ pc = "ruleD"
    /\ result' = AppendRule(result, check_record_availability(count))
    /\ pc' = "ruleE"
    /\ UNCHANGED <<metadata, count, features, calls, escaped, config, now, ret, fault>>
    /\ UNCHANGED <<threshold, BatchVars, ClientVars>>

\* rule E issues its page request through client._make_request
RuleE ==
    /\ pc = "ruleE"
    /\ IF PaginationFetches(metadata, count)
       THEN \E page \in OrchPages :
              LET r == check_pagination_support(metadata, count, page)
              IN /\ result' = [AppendRule(result, r) EXCEPT
                                 !.pagination_ok = r.status]
                 /\ calls' = Append(calls,
                                    Call("page_fetch", PaginationOffset(metadata),
                                         PageOutcome(page)))
       ELSE LET r == check_pagination_support(metadata, count, NoPage)
            IN /\ result' = [AppendRule(result, r) EXCEPT
                               !.pagination_ok = r.status]
               /\ UNCHANGED calls
    /\ pc' = "ruleF"
    /\ UNCHANGED <<metadata, count, features, escaped, config, now, ret, fault>>
    /\ UNCHANGED <<threshold, BatchVars, ClientVars>>

RuleF ==
    /\ pc = "ruleF"
    /\ LET r == check_schema_sanity(features)
       IN result' = [AppendRule(result, r) EXCEPT
                       !.null_fields_over_80pct =
                           EvGet(r.evidence, "high_null_count", 0)]
    /\ pc' = "ruleG"
    /\ UNCHANGED <<metadata, count, features, calls, escaped, config, now, ret, fault>>
    /\ UNCHANGED <<threshold, BatchVars, ClientVars>>

RuleG ==
    /\ pc = "ruleG"
    /\ LET r == check_geometry_sanity(features, config.expected_geometry)
       IN result' = [AppendRule(result, r) EXCEPT
                       !.pct_invalid_geometry =
                           EvGet(r.evidence, "pct_invalid", 0),
                       !.pct_empty_geometry = EvGet(r.evidence, "pct_empty", 0)]
    /\ pc' = "ruleH"
    /\ UNCHANGED <<metadata, count, features, calls, escaped, config, now, ret, fault>>
    /\ UNCHANGED <<threshold, BatchVars, ClientVars>>

\* rule H reads the clock (rules.py:611)
RuleH ==
    /\ pc = "ruleH"
    /\ \E d \in Clock :
         /\ now' = d
         /\ LET r == check_update_recency(metadata, DefaultThresholdMonths, d)
            IN result' = [AppendRule(result, r) EXCEPT
                            !.last_edit_date =
                                EvGet(r.evidence, "last_edit_date", JNone)]
    /\ pc' = "ruleI"
    /\ UNCHANGED <<metadata, count, features, calls, escaped, config, ret, fault>>
    /\ threshold' = DefaultThresholdMonths
    /\ UNCHANGED <<BatchVars, ClientVars>>

RuleI ==
    /\ pc = "ruleI"
    /\ result' = AppendRule(result, check_spatial_reference(metadata))
    /\ pc' = "aggregate"
    /\ UNCHANGED <<metadata, count, features, calls, escaped, config, now, ret, fault>>
    /\ UNCHANGED <<threshold, BatchVars, ClientVars>>

\* Step 6: aggregate the overall status
Aggregate ==
    /\ pc = "aggregate"
    /\ result' = [result EXCEPT !.overall_status = aggregate_status(result)]
    /\ pc' = "top"
    /\ UNCHANGED <<metadata, count, features, calls, escaped, config, now, ret, fault>>
    /\ UNCHANGED <<threshold, BatchVars, ClientVars>>

\* Step 7: compute the top issues, then return
ComputeTopIssues ==
    /\ pc = "top"
    /\ result' = [result EXCEPT !.top_issues = compute_top_issues(result)]
    /\ pc' = "done"
    /\ UNCHANGED <<metadata, count, features, calls, escaped, config, now, ret, fault>>
    /\ UNCHANGED <<threshold, BatchVars, ClientVars>>

\* models.py:65-66: the list objects that the class body of LayerQAResult
\* creates for the defaults of rule_results and errors (cell 0); no result
\* owns a list yet
NoLists == [rule_results |-> <<>>, errors |-> <<>>]
NoHeap == [c \in {0} |-> NoLists]

\* no issue file has been written
NoFiles == <<>>

\* no PipelineRun has been built
NoRun == [total_layers |-> 0, pass_count |-> 0, warn_count |-> 0, fail_count |-> 0]

\* no batch driver: run_qa_for_layer, a rule or a method is called directly
NoBatch ==
    /\ args = [sample_size |-> 0]
    /\ configs = <<>>
    /\ idx = 0
    /\ results = <<>>

\* no request of the client is followed
NoClient ==
    /\ sample_size = 0
    /\ max_record_count = JNone
    /\ offset = 0
    /\ retries = 0
    /\ attempts = 0

NoRet == RuleResult("", NA, "", NoEvidence)

---------------------------------------------------------------------------
Init ==
    /\ pc = "start"
    /\ config \in OrchConfigs
    /\ metadata = NoMetadata
    /\ count = JNone
    /\ features = NoFeatures
    /\ result = NewResult(config)
    /\ calls = <<>>
    /\ escaped = FALSE
    /\ now = 0
    /\ ret = NoRet
    /\ fault = NoFault
    /\ threshold = 0
    /\ NoBatch
    /\ heap = NoHeap
    /\ run_metadata = NoRun
    /\ files = NoFiles
    /\ NoClient

Next ==
    \/ FetchMetadata
    \/ ExtractFields
    \/ CountFeatures
    \/ SampleFeatures
    \/ DetermineFormat
    \/ RuleA
    \/ RuleB
    \/ RuleC
    \/ RuleD
    \/ RuleE
    \/ RuleF
    \/ RuleG
    \/ RuleH
    \/ RuleI
    \/ Aggregate
    \/ ComputeTopIssues

Spec == Init /\ [][Next]_vars

---------------------------------------------------------------------------
(* The methods of LayerQAResult called directly on a result whose rule    *)
(* list is built one entry at a time: SpecResult.                         *)

MaxRules == 4

ApiMessages == {"not available", "too old"}

IdleVars ==
    <<metadata, count, features, calls, escaped, config, now, ret, fault,
      threshold, BatchVars, ClientVars>>

InitResult ==
    /\ pc = "build"
    /\ config = LayerConfig("parcels", "Polygon")
    /\ \E reachable \in BOOLEAN :
         result = [NewResult(config) EXCEPT !.reachable = reachable]
    /\ metadata = NoMetadata
    /\ count = JNone
    /\ features = NoFeatures
    /\ calls = <<>>
    /\ escaped = FALSE
    /\ now = 0
    /\ ret = NoRet
    /\ fault = NoFault
    /\ threshold = 0
    /\ NoBatch
    /\ heap = NoHeap
    /\ run_metadata = NoRun
    /\ files = NoFiles
    /\ NoClient

\* result.rule_results.append(RuleResult(...))
AppendResult ==
    /\ pc = "build"
    /\ Len(result.rule_results) < MaxRules
    /\ \E status \in QAStatus, message \in ApiMessages :
         result' = AppendRule(result,
                              RuleResult(RuleNames[Len(result.rule_results) + 1],
                                         status, message, NoEvidence))
    /\ UNCHANGED <<pc, IdleVars>>

\* result.overall_status = result.aggregate_status()
CallAggregate ==
    /\ pc = "build"
    /\ result' = [result EXCEPT !.overall_status = aggregate_status(result)]
    /\ pc' = "aggregated"
    /\ UNCHANGED IdleVars

\* result.top_issues = result.compute_top_issues()
CallTopIssues ==
    /\ pc = "build"
    /\ result' = [result EXCEPT !.top_issues = compute_top_issues(result)]
    /\ pc' = "digested"
    /\ UNCHANGED IdleVars

NextResult == AppendResult \/ CallAggregate \/ CallTopIssues

SpecResult == InitResult /\ [][NextResult]_vars

---------------------------------------------------------------------------
(* The nine rule functions called directly, one call per behaviour:       *)
(* SpecRules.  The feature sample is built one feature at a time; the     *)
(* other arguments are drawn when the call is made.  After the call pc is *)
(* the name of the rule, ret what it returned, fault the exception raised *)
(* inside its try block and calls the requests it issued.                 *)

MaxSample == 20
MaxOddSample == 3

FullRow == [c \in {"A", "B", "C", "D", "E", "OBJECTID"} |-> "val"]

\* features that are rare in a sample: they occur in short samples only
OddFeatures ==
    <<BadFeature,
      Feature(Geom("emptydict"), GoodRow),
      Feature(Geom("nondict"), GoodRow),
      Feature(Parsed("polygon", FALSE), GoodRow),
      Feature(Parsed("multipolygon", TRUE), GoodRow),
      Feature(Parsed("linestring", TRUE), GoodRow),
      Feature(Parsed("point", TRUE), FourNullRow)>>

CoreFeatures ==
    <<Feature(Geom("absent"), SparseRow),
      Feature(Geom("unparseable"), NoEvidence),
      Feature(Parsed("point", TRUE), GoodRow),
      Feature(Parsed("polygon", TRUE), FullRow)>>

FeatureKinds == OddFeatures \o CoreFeatures

Rank(f) == CHOOSE i \in 1..Len(FeatureKinds) : FeatureKinds[i] = f

ExpectedGeometries == {"Point", "Line", "Polygon", "Unknown"}

RuleMetadata == {NoMetadata, BaseMetadata}

RuleCounts == {JNone, JInt(0), JInt(2), JInt(3), JInt(1000), JInt(1001), JStr}

CompletenessInputs ==
    {NoMetadata} \cup
    {[BaseMetadata EXCEPT
        !.description = d,
        !.geometryType = gt,
        !.extent = ex,
        !.fields = fl,
        !.capabilities = cap,
        !.maxRecordCount = mrc,
        !.advancedQueryCapabilities = adv[1],
        !.supportsPagination = adv[2],
        !.supportsQueryWithPagination = adv[3]] :
        d \in {"absent", "str"},
        gt \in {"absent", "None", "esriGeometryPolygon"},
        ex \in {"absent", "None", "empty", "dict"},
        fl \in {[k |-> "absent", n |-> 0], [k |-> "None", n |-> 0]}
                 \cup {[k |-> "list", n |-> n] : n \in {0, 2, 3, 4}},
        cap \in {"absent", "str"},
        mrc \in {JAbsent, JNone, JInt(0), JInt(1000)},
        adv \in {<<"absent", FALSE, FALSE>>, <<"None", FALSE, FALSE>>}
                  \cup {<<"dict", a, b>> : a \in BOOLEAN, b \in BOOLEAN}}

PaginationInputs ==
    {NoMetadata} \cup
    {[BaseMetadata EXCEPT !.maxRecordCount = mrc] :
        mrc \in {JAbsent, JNone, JInt(0), JInt(2), JInt(1000)}}

RecencyAges == {0 - 1, 0, 15, 16, 30, 31, 730, 731, 761, 762, 900}

\* 25 months are 761 days exactly
RecencyThresholds == {DefaultThresholdMonths, 1, 25}

RecencyInputs ==
    {NoMetadata} \cup
    {[BaseMetadata EXCEPT
        !.editFieldsInfo = ef[1],
        !.editDateField = ef[2],
        !.editingInfo = ed[1],
        !.lastEditDate = ed[2]] :
        ef \in {<<"absent", "absent">>, <<"None", "absent">>,
                <<"dict", "absent">>, <<"dict", "str">>},
        ed \in {<<"absent", JAbsent>>}
                 \cup {<<"dict", t>> : t \in {JAbsent, JNone, JInt(0), JStr}}
                 \cup {<<"dict", JInt(Today - a)>> : a \in RecencyAges}}

SpatialRefInputs ==
    {NoMetadata} \cup
    {[BaseMetadata EXCEPT !.extent = ex] : ex \in {"absent", "None", "empty"}} \cup
    {[BaseMetadata EXCEPT !.extent = "dict", !.spatialReference = sr] :
        sr \in {"absent", "None"}} \cup
    {[BaseMetadata EXCEPT
        !.extent = "dict",
        !.spatialReference = "dict",
        !.wkid = w,
        !.latestWkid = lw,
        !.wkt = t] :
        w \in {JAbsent, JNone, JInt(0), JInt(4326), JInt(99999), JStr},
        lw \in {JAbsent, JInt(3857), JInt(99999)},
        t \in {JAbsent, JNone, JStrLen(5), JStrLen(250), JInt(7)}}

InitRules ==
    /\ pc = "idle"
    /\ config = LayerConfig("parcels", "Unknown")
    /\ result = NewResult(config)
    /\ metadata = NoMetadata
    /\ count = JNone
    /\ features = FeatureList(<<>>)
    /\ calls = <<>>
    /\ escaped = FALSE
    /\ now = 0
    /\ ret = NoRet
    /\ fault = NoFault
    /\ threshold = 0
    /\ NoBatch
    /\ heap = NoHeap
    /\ run_metadata = NoRun
    /\ files = NoFiles
    /\ NoClient

\* the sample grows by one feature
AddFeature ==
    /\ pc = "idle"
    /\ Len(features.items) < MaxSample
    /\ \E i \in 1..Len(FeatureKinds) :
         LET items == features.items
             odd == \E j \in 1..Len(items) : Rank(items[j]) <= Len(OddFeatures)
         IN /\ (i > Len(OddFeatures) /\ ~odd) \/ Len(items) < MaxOddSample
            /\ IF items = <<>> THEN TRUE ELSE Rank(items[Len(items)]) <= i
            /\ features' = FeatureList(Append(items, FeatureKinds[i]))
    /\ UNCHANGED <<pc, metadata, count, result, calls, escaped, config, now, ret,
                   fault>>
    /\ UNCHANGED <<threshold, BatchVars, ClientVars>>

\* the rule returns r (or raises, when r is no RuleResult)
Return(rule, r, f) ==
    /\ ret' = r
    /\ fault' = f
    /\ escaped' = (r.status \notin QAStatus)
    /\ pc' = rule

\* the samples a call may pass: the one built, or None in place of []
SampleArgs == {features} \cup (IF features.items = <<>> THEN {NoFeatures} ELSE {})

Call_check_reachability ==
    /\ pc = "idle" /\ features.items = <<>>
    /\ \E md \in RuleMetadata :
         /\ metadata' = md
         /\ Return("reachability", check_reachability(md), NoFault)
    /\ UNCHANGED <<count, features, result, calls, config, now>>
    /\ UNCHANGED <<threshold, BatchVars, ClientVars>>

Call_check_queryability ==
    /\ pc = "idle" /\ features.items = <<>>
    /\ \E md \in RuleMetadata, cnt \in RuleCounts :
         /\ metadata' = md
         /\ count' = cnt
         /\ Return("queryability", check_queryability(cnt, md), NoFault)
    /\ UNCHANGED <<features, result, calls, config, now>>
    /\ UNCHANGED <<threshold, BatchVars, ClientVars>>

Call_check_metadata_completeness ==
    /\ pc = "idle" /\ features.items = <<>>
    /\ \E md \in CompletenessInputs :
         /\ metadata' = md
         /\ Return("metadata_completeness", check_metadata_completeness(md),
                   IF md.kind = "None" THEN NoFault ELSE CompletenessFault(md))
    /\ UNCHANGED <<count, features, result, calls, config, now>>
    /\ UNCHANGED <<threshold, BatchVars, ClientVars>>

Call_check_record_availability ==
    /\ pc = "idle" /\ features.items = <<>>
    /\ \E cnt \in RuleCounts :
         /\ count' = cnt
         /\ Return("record_availability", check_record_availability(cnt), NoFault)
    /\ UNCHANGED <<metadata, features, result, calls, config, now>>
    /\ UNCHANGED <<threshold, BatchVars, ClientVars>>

\* the rule issues its page request, if any, through client._make_request
Call_check_pagination_support ==
    /\ pc = "idle" /\ features.items = <<>>
    /\ \E md \in PaginationInputs, cnt \in RuleCounts :
         /\ metadata' = md
         /\ count' = cnt
         /\ IF PaginationFetches(md, cnt)
            THEN \E page \in OrchPages :
                   /\ calls' = <<Call("page_fetch", PaginationOffset(md),
                                      PageOutcome(page))>>
                   /\ Return("pagination_support",
                             check_pagination_support(md, cnt, page),
                             IF page.k = "error" THEN "request failed"
                             ELSE NoFault)
            ELSE /\ UNCHANGED calls
                 /\ Return("pagination_support",
                           check_pagination_support(md, cnt, NoPage),
                           IF md.kind = "None" \/ cnt.k = "None" THEN NoFault
                           ELSE PaginationFault(md, cnt))
    /\ UNCHANGED <<features, result, config, now>>
    /\ UNCHANGED <<threshold, BatchVars, ClientVars>>

Call_check_schema_sanity ==
    /\ pc = "idle"
    /\ \E fs \in SampleArgs :
         /\ features' = fs
         /\ Return("schema_sanity", check_schema_sanity(fs),
                   IF NotFeatures(fs) THEN NoFault ELSE FeatureFault(fs))
    /\ UNCHANGED <<metadata, count, result, calls, config, now>>
    /\ UNCHANGED <<threshold, BatchVars, ClientVars>>

Call_check_geometry_sanity ==
    /\ pc = "idle"
    /\ \E fs \in SampleArgs, expected \in ExpectedGeometries :
         /\ features' = fs
         /\ config' = LayerConfig("parcels", expected)
         /\ Return("geometry_sanity", check_geometry_sanity(fs, expected),
                   IF NotFeatures(fs) THEN NoFault ELSE FeatureFault(fs))
    /\ UNCHANGED <<metadata, count, result, calls, now>>
    /\ UNCHANGED <<threshold, BatchVars, ClientVars>>

Call_check_update_recency ==
    /\ pc = "idle" /\ features.items = <<>>
    /\ \E md \in RecencyInputs, threshold_months \in RecencyThresholds :
         /\ metadata' = md
         /\ threshold' = threshold_months
         /\ UNCHANGED <<BatchVars, ClientVars>>
         /\ now' = Today
         /\ Return("update_recency",
                   check_update_recency(md, threshold_months, Today),
                   IF md.kind = "None" THEN NoFault ELSE RecencyFault(md))
    /\ UNCHANGED <<count, features, result, calls, config>>

Call_check_spatial_reference ==
    /\ pc = "idle" /\ features.items = <<>>
    /\ \E md \in SpatialRefInputs :
         /\ metadata' = md
         /\ Return("spatial_reference", check_spatial_reference(md),
                   IF md.kind = "None" THEN NoFault ELSE SpatialRefFault(md))
    /\ UNCHANGED <<count, features, result, calls, config, now>>
    /\ UNCHANGED <<threshold, BatchVars, ClientVars>>

NextRules ==
    \/ AddFeature
    \/ Call_check_reachability
    \/ Call_check_queryability
    \/ Call_check_metadata_completeness
    \/ Call_check_record_availability
    \/ Call_check_pagination_support
    \/ Call_check_schema_sanity
    \/ Call_check_geometry_sanity
    \/ Call_check_update_recency
    \/ Call_check_spatial_reference

SpecRules == InitRules /\ [][NextRules]_vars

---------------------------------------------------------------------------
(* run_qa_for_layer as one function of its configuration and of what the  *)
(* collaborators answered, for a run that reaches its return at line 413.  *)

\* lines 353-394: the nine rule results, in the order of the code
RunRules(cfg, md, cnt, fs, page, now_day) ==
    <<check_reachability(md),
      check_queryability(cnt, md),
      check_metadata_completeness(md),
      check_record_availability(cnt),
      check_pagination_support(md, cnt, page),
      check_schema_sanity(fs),
      check_geometry_sanity(fs, cfg.expected_geometry),
      check_update_recency(md, DefaultThresholdMonths, now_day),
      check_spatial_reference(md)>>

\* lines 362-391: the evidence copied to the summary fields
Mirrored(res, rs) ==
    [res EXCEPT
       !.rule_results = rs,
       !.metadata_score = EvGet(rs[3].evidence, "score", 0),
       !.pagination_ok = rs[5].status,
       !.null_fields_over_80pct = EvGet(rs[6].evidence, "high_null_count", 0),
       !.pct_invalid_geometry = EvGet(rs[7].evidence, "pct_invalid", 0),
       !.pct_empty_geometry = EvGet(rs[7].evidence, "pct_empty", 0),
       !.last_edit_date = EvGet(rs[8].evidence, "last_edit_date", JNone)]

\* lines 300-413 without the unreachable branch and without an exception
Evaluated(cfg, md, cnt, fs, fmt, page, now_day) ==
    LET r1 == [NewResult(cfg) EXCEPT
                 !.reachable = TRUE,
                 !.raw_metadata = md,
                 !.geometry_type_reported = GeometryTypeReported(md.geometryType),
                 !.max_record_count = Get(md.maxRecordCount),
                 !.spatial_reference_wkid = Wkid(md),
                 !.count_estimate = cnt,
                 !.format_supported = fmt]
        r2 == Mirrored(r1, RunRules(cfg, md, cnt, fs, page, now_day))
        r3 == [r2 EXCEPT !.overall_status = aggregate_status(r2)]
    IN [r3 EXCEPT !.top_issues = compute_top_issues(r3)]

---------------------------------------------------------------------------
(* cli.py: the batch driver run_pipeline, lines 114-134: SpecBatch.        *)

MaxLayers == 3

\* --sample-size: the default of line 48 when the option is not given
SampleSizes == {DefaultSampleSize, 50, 500}

\* the i-th row of the configuration file
LayerRow(i) == LayerConfig("layer" \o ToString(i), "Polygon")

\* load_config: a configuration of n layers
LoadConfig(n) == [i \in 1..n |-> LayerRow(i)]

\* what the service of a reachable layer answers
BatchMetadata ==
    [BaseMetadata EXCEPT
       !.description = "str",
       !.capabilities = "str",
       !.geometryType = "esriGeometryPolygon",
       !.extent = "dict",
       !.spatialReference = "dict",
       !.wkid = JInt(4326),
       !.fields = [k |-> "list", n |-> 3]]

BatchAnswers ==
    {[cnt |-> JNone, fs |-> NoFeatures],
     [cnt |-> JInt(3), fs |-> NoFeatures],
     [cnt |-> JInt(3),
      fs |-> FeatureList(<<Feature(Parsed("polygon", TRUE), GoodRow)>>)]}

\* the requests of one evaluation that the batch keeps track of
LayerCalls(i, a) ==
    IF SampleDecision(a.cnt) = "sample"
    THEN <<Call("sample_features", DefaultSampleSize,
                IF a.fs.isNone THEN "None" ELSE "value"),
           Call("run_qa_for_layer", i, "value")>>
    ELSE <<Call("run_qa_for_layer", i, "value")>>

\* a LayerQAResult whose list fields are the default objects of the class
DefaultLists(i) == 0

\* LayerQAResult(...) of layer i: the model class copies the list defaults,
\* so the result owns lists of its own
OwnLists(i) == i

\* the lists of cell c after the evaluation that returned r appended its
\* rule results and errors to them; a new cell starts as a copy of the
\* defaults
Store(h, c, r) ==
    LET start == IF c \in DOMAIN h THEN h[c] ELSE h[0]
        after == [rule_results |-> start.rule_results \o r.rule_results,
                  errors |-> start.errors \o r.errors]
    IN [k \in DOMAIN h \cup {c} |-> IF k = c THEN after ELSE h[k]]

\* the result as its caller sees it: its list fields read through the heap
WithLists(r, cell) ==
    [r EXCEPT !.rule_results = cell.rule_results, !.errors = cell.errors]

\* lines 137-139: sum(1 for r in results if r.overall_status == status)
StatusCount(rs, status) ==
    Cardinality({j \in 1..Len(rs) : rs[j].overall_status = status})

\* lines 142-150: the run metadata
PipelineRun(rs) ==
    [total_layers |-> Len(rs),
     pass_count |-> StatusCount(rs, PASS),
     warn_count |-> StatusCount(rs, WARN),
     fail_count |-> StatusCount(rs, FAIL)]

\* a driver that gives up at the first layer that fails
Break(i, n) == n + 1

\* line 128, `continue`: the loop goes on with the next layer
Continue(i, n) == i + 1

InitBatch ==
    /\ pc = "loop"
    /\ args \in [sample_size : SampleSizes]
    /\ \E n \in 0..MaxLayers : configs = LoadConfig(n)
    /\ idx = 1
    /\ results = <<>>
    /\ config = LayerConfig("", "Unknown")
    /\ result = NewResult(config)
    /\ metadata = NoMetadata
    /\ count = JNone
    /\ features = NoFeatures
    /\ calls = <<>>
    /\ escaped = FALSE
    /\ now = Today
    /\ ret = NoRet
    /\ fault = NoFault
    /\ threshold = 0
    /\ NoClient
    /\ heap = NoHeap
    /\ run_metadata = NoRun
    /\ files = NoFiles

\* lines 116-120: the next layer is evaluated and its result collected, or
\* the evaluation raises and the except clause of line 125 goes on
EvaluateLayer ==
    /\ pc = "loop"
    /\ idx <= Len(configs)
    /\ config' = configs[idx]
    /\ \/ /\ calls' = Append(calls, Call("run_qa_for_layer", idx, "raise"))
          /\ fault' = CollaboratorError
          /\ idx' = Continue(idx, Len(configs))
          /\ UNCHANGED <<pc, result, results, metadata, count, features, heap>>
       \/ /\ calls' = Append(Append(calls, Call("fetch_metadata", 0, "None")),
                             Call("run_qa_for_layer", idx, "value"))
          /\ heap' = Store(heap, OwnLists(idx),
                           Unreachable(NewResult(configs[idx])))
          /\ result' = WithLists(Unreachable(NewResult(configs[idx])),
                                 heap'[OwnLists(idx)])
          /\ results' = Append(results, result')
          /\ metadata' = NoMetadata
          /\ fault' = NoFault
          /\ pc' = "write"
          /\ UNCHANGED <<idx, count, features>>
       \/ \E a \in BatchAnswers :
            /\ calls' = calls \o LayerCalls(idx, a)
            /\ LET r == Evaluated(configs[idx], BatchMetadata, a.cnt, a.fs,
                                  "both", NoPage, Today)
               IN /\ heap' = Store(heap, OwnLists(idx), r)
                  /\ result' = WithLists(r, heap'[OwnLists(idx)])
            /\ results' = Append(results, result')
            /\ metadata' = BatchMetadata
            /\ count' = a.cnt
            /\ features' = a.fs
            /\ fault' = NoFault
            /\ pc' = "write"
            /\ UNCHANGED idx
    /\ UNCHANGED <<escaped, now, ret, threshold, args, configs, ClientVars,
                   run_metadata, files>>

\* line 123: the issue file is written, or write_issue_json raises and the
\* except clause of line 125 goes on
WriteIssue ==
    /\ pc = "write"
    /\ \/ /\ calls' = Append(calls, Call("write_issue_json", idx, "value"))
          /\ fault' = NoFault
          /\ idx' = idx + 1
       \/ /\ calls' = Append(calls, Call("write_issue_json", idx, "raise"))
          /\ fault' = CollaboratorError
          /\ idx' = Continue(idx, Len(configs))
    /\ pc' = "loop"
    /\ UNCHANGED <<metadata, count, features, result, escaped, config, now, ret,
                   threshold, args, configs, results, ClientVars, heap,
                   run_metadata, files>>

\* lines 132-134: the loop is over; without any result the driver returns 1
EndOfLoop ==
    /\ pc = "loop"
    /\ idx > Len(configs)
    /\ IF results = <<>>
       THEN pc' = "return 1" /\ UNCHANGED run_metadata
       ELSE /\ run_metadata' = PipelineRun(results)
            /\ pc' = "reports"
    /\ UNCHANGED <<metadata, count, features, result, calls, escaped, config,
                   now, ret, fault, threshold, args, configs, idx, results,
                   ClientVars, heap, files>>

NextBatch == EvaluateLayer \/ WriteIssue \/ EndOfLoop

SpecBatch == InitBatch /\ [][NextBatch]_vars

---------------------------------------------------------------------------
(* arcgis.py: ArcGISClient.sample_features, lines 148-224: SpecSample.     *)

MaxSampleSize == 3
MaxPage == 4

\* maxRecordCount of the metadata handed to sample_features
SampleMetadata ==
    {[BaseMetadata EXCEPT !.maxRecordCount = mrc] :
        mrc \in {JAbsent, JNone, JInt(0), JInt(1), JInt(2)}}

TypeErrorMin == "'<' not supported between instances of 'NoneType' and 'int'"

\* one request of the loop: its resultOffset and resultRecordCount, how it
\* ended and the number of records of the page
PageRequest(off, limit, outcome, n) ==
    [op |-> "_make_request", arg |-> off, limit |-> limit,
     outcome |-> outcome, n |-> n]

Collected == Len(features.items)

\* line 188: limit = min(sample_size - len(features), max_record_count)
Limit == Min(sample_size - Collected, max_record_count.v)

\* a loop that asks again after a page shorter than requested
AfterPageUntilEmpty(n, limit, off) ==
    IF n = 0 THEN "break" ELSE "continue"

\* lines 202-217: what the loop does after a page of n records, off being
\* the offset already advanced
AfterPage(n, limit, off) ==
    IF n = 0 THEN "break"
    ELSE IF n < limit THEN "break"
    ELSE IF off > sample_size * 2 THEN "break"
    ELSE "continue"

\* a page of n records
Page(n) == [i \in 1..n |-> Feature(Parsed("point", TRUE), GoodRow)]

InitSample ==
    /\ pc = "while"
    /\ sample_size \in 0..MaxSampleSize
    /\ metadata \in SampleMetadata
    /\ max_record_count = PageLimit(metadata)
    /\ features = FeatureList(<<>>)
    /\ offset = 0
    /\ calls = <<>>
    /\ fault = NoFault
    /\ config = LayerConfig("parcels", "Unknown")
    /\ result = NewResult(config)
    /\ count = JNone
    /\ escaped = FALSE
    /\ now = 0
    /\ ret = NoRet
    /\ threshold = 0
    /\ retries = 0
    /\ attempts = 0
    /\ NoBatch
    /\ heap = NoHeap
    /\ run_metadata = NoRun
    /\ files = NoFiles

\* one iteration of the while loop of line 186; an exception anywhere ends
\* in the except clause of line 222, which returns None
SamplePage ==
    /\ pc = "while"
    /\ Collected < sample_size
    /\ IF max_record_count.k # "int"
       THEN /\ fault' = TypeErrorMin
            /\ features' = NoFeatures
            /\ pc' = "returned"
            /\ UNCHANGED <<calls, offset>>
       ELSE \/ /\ calls' = Append(calls, PageRequest(offset, Limit, "raise", 0))
               /\ fault' = CollaboratorError
               /\ features' = NoFeatures
               /\ pc' = "returned"
               /\ UNCHANGED offset
            \/ \E n \in 0..MaxPage :
                 /\ calls' = Append(calls, PageRequest(offset, Limit, "value", n))
                 /\ features' = IF n = 0 THEN features
                                ELSE FeatureList(features.items \o Page(n))
                 /\ offset' = offset + n
                 /\ pc' = IF AfterPage(n, Limit, offset + n) = "break"
                          THEN "returned" ELSE "while"
                 /\ UNCHANGED fault
    /\ UNCHANGED <<metadata, count, result, escaped, config, now, ret, threshold,
                   args, configs, idx, results, sample_size, max_record_count,
                   retries, attempts, heap, run_metadata, files>>

\* the loop condition of line 186 is false: line 220 returns the features
ReturnFeatures ==
    /\ pc = "while"
    /\ Collected >= sample_size
    /\ pc' = "returned"
    /\ UNCHANGED <<metadata, count, features, result, calls, escaped, config,
                   now, ret, fault, threshold, args, configs, idx, results,
                   ClientVars, heap, run_metadata, files>>

NextSample == SamplePage \/ ReturnFeatures

\* every request returns or fails, so the loop keeps taking its next step
SpecSample == InitSample /\ [][NextSample]_vars /\ WF_vars(NextSample)

---------------------------------------------------------------------------
(* arcgis.py: ArcGISClient._make_request under its retry decorator, lines  *)
(* 68-97: SpecRequest.                                                     *)

MaxRetries == 3

\* line 70: stop=stop_after_attempt(3)
StopAfterAttempt == 3

\* what session.get or raise_for_status raises
RequestErrors == {"Timeout", "HTTPError", "ConnectionError"}

\* line 69: retry_if_exception_type((Timeout, HTTPError))
Retried(err) == err \in {"Timeout", "HTTPError"}

\* ArcGISClient(retries=...): the value is stored at line 46
InitRequest ==
    /\ pc = "request"
    /\ retries \in 0..MaxRetries
    /\ attempts = 0
    /\ calls = <<>>
    /\ fault = NoFault
    /\ config = LayerConfig("parcels", "Unknown")
    /\ result = NewResult(config)
    /\ metadata = NoMetadata
    /\ count = JNone
    /\ features = NoFeatures
    /\ escaped = FALSE
    /\ now = 0
    /\ ret = NoRet
    /\ threshold = 0
    /\ sample_size = 0
    /\ max_record_count = JNone
    /\ offset = 0
    /\ NoBatch
    /\ heap = NoHeap
    /\ run_metadata = NoRun
    /\ files = NoFiles

\* one attempt of lines 87-97: it returns the response, or it raises and the
\* decorator tries again or re-raises
Attempt ==
    /\ pc = "request"
    /\ attempts' = attempts + 1
    /\ \/ /\ calls' = Append(calls, Call("session.get", attempts + 1, "value"))
          /\ pc' = "returned"
          /\ UNCHANGED fault
       \/ \E err \in RequestErrors :
            /\ calls' = Append(calls, Call("session.get", attempts + 1, err))
            /\ IF Retried(err) /\ attempts + 1 < StopAfterAttempt
               THEN UNCHANGED <<pc, fault>>
               ELSE pc' = "raised" /\ fault' = err
    /\ UNCHANGED <<metadata, count, features, result, escaped, config, now, ret,
                   threshold, args, configs, idx, results, sample_size,
                   max_record_count, offset, retries, heap, run_metadata, files>>

NextRequest == Attempt

SpecRequest == InitRequest /\ [][NextRequest]_vars

---------------------------------------------------------------------------
(* report.py: write_issue_json called for the layers of a batch, lines     *)
(* 214-262 and cli.py:123: SpecIssue. A layer name is the sequence of its  *)
(* characters.                                                             *)

MaxNameLen == 2
MaxIssueLayers == 2

\* the characters of the layer names: a letter, a separator that is kept
\* and one that is not
NameChars == {"a", "_", "/"}

\* c.isalnum()
IsAlnum(c) == c = "a"

\* line 226: c if c.isalnum() or c in "_- " else "_", for c in layer_name
SafeName(name) ==
    [i \in 1..Len(name) |->
        IF IsAlnum(name[i]) \/ name[i] \in {"_", "-", " "} THEN name[i] ELSE "_"]

\* line 227: output_dir / f"{safe_name}.json"
OutputPath(name) == <<"issues", "/">> \o SafeName(name) \o <<".json">>

\* the non-empty layer names up to MaxNameLen characters
LayerNames == UNION {[1..n -> NameChars] : n \in 1..MaxNameLen}

\* the configurations of a batch: pairwise distinct layer names
IssueConfigs ==
    {cs \in UNION {[1..n -> [layer_name : LayerNames]] : n \in 0..MaxIssueLayers} :
        \A i, j \in 1..Len(cs) : i # j => cs[i].layer_name # cs[j].layer_name}

InitIssue ==
    /\ pc = "write"
    /\ configs \in IssueConfigs
    /\ idx = 1
    /\ files = NoFiles
    /\ calls = <<>>
    /\ args = [sample_size |-> 0]
    /\ results = <<>>
    /\ heap = NoHeap
    /\ run_metadata = NoRun
    /\ config = LayerConfig("", "Unknown")
    /\ result = NewResult(config)
    /\ metadata = NoMetadata
    /\ count = JNone
    /\ features = NoFeatures
    /\ escaped = FALSE
    /\ now = 0
    /\ ret = NoRet
    /\ fault = NoFault
    /\ threshold = 0
    /\ NoClient

\* write_issue_json(result, args.out / "issues") for the next layer: the file
\* at the output path is created or replaced
WriteIssueJson ==
    /\ pc = "write"
    /\ idx <= Len(configs)
    /\ LET name == configs[idx].layer_name
           path == OutputPath(name)
       IN /\ files' = [f \in DOMAIN files \cup {path} |->
                          IF f = path THEN name ELSE files[f]]
          /\ calls' = Append(calls, Call("write_issue_json", idx, "value"))
    /\ idx' = idx + 1
    /\ UNCHANGED <<pc, metadata, count, features, result, escaped, config, now,
                   ret, fault, threshold, args, configs, results, ClientVars,
                   heap, run_metadata>>

NextIssue == WriteIssueJson

SpecIssue == InitIssue /\ [][NextIssue]_vars

---------------------------------------------------------------------------
(* Properties of run_qa_for_layer, checked under Spec *)

Returned == pc = "done" /\ ~escaped

MetadataAbsent == calls # <<>> /\ calls[1].outcome = "None"
MetadataReturned == calls # <<>> /\ calls[1].outcome = "value"

\* C1: when the metadata fetch returns None, run_qa_for_layer returns at
\* once (no further external call) a result with reachable = FALSE,
\* overall_status FAIL and a rule list holding exactly the reachability
\* rule with status FAIL.
C1_UnreachableShortCircuit ==
    MetadataAbsent =>
        /\ Returned
        /\ Len(calls) = 1
        /\ ~result.reachable
        /\ result.overall_status = FAIL
        /\ Len(result.rule_results) = 1
        /\ result.rule_results[1].rule_name = "reachability"
        /\ result.rule_results[1].status = FAIL

C1_Witness == MetadataAbsent /\ Returned /\ result.errors # <<>>

\* C2 (as claimed): whenever the metadata fetch returns metadata, whatever
\* its content, the returned result carries exactly the nine rule results
\* in the fixed order.
C2_NineRulesWheneverMetadata ==
    (pc = "done" /\ MetadataReturned) =>
        /\ Len(result.rule_results) = 9
        /\ \A i \in 1..9 : result.rule_results[i].rule_name = RuleNames[i]

\* C5 (as claimed): the top_issues of every returned result is the digest
\* of its own rule list, so a rule list with a FAIL or WARN entry never
\* comes with an empty top_issues.
C5_TopIssuesIsDigest ==
    pc = "done" =>
        /\ result.top_issues = compute_top_issues(result)
        /\ (\E i \in 1..Len(result.rule_results) :
               result.rule_results[i].status \in {FAIL, WARN})
           => result.top_issues # ""

\* C7: if a step of run_qa_for_layer raises, the exception does not escape:
\* the result is returned with the fault message appended to errors and
\* overall_status FAIL.
C7_FaultIsCaught ==
    /\ ~escaped
    /\ (pc = "done" /\ fault # NoFault) =>
          /\ result.errors # <<>>
          /\ result.errors[Len(result.errors)] = "Unexpected error: " \o fault
          /\ result.overall_status = FAIL

C7_Witness ==
    /\ pc = "done"
    /\ fault = AttributeErrorGet
    /\ result.reachable
    /\ result.errors = <<"Unexpected error: " \o AttributeErrorGet>>

---------------------------------------------------------------------------
(* Properties of LayerQAResult, checked under SpecResult *)

StatusesOf(rule_results) ==
    {rule_results[i].status : i \in 1..Len(rule_results)}

\* the rule list rearranged by the permutation p of its positions
Permuted(rule_results, p) == [i \in 1..Len(rule_results) |-> rule_results[p[i]]]

WithoutNA(rule_results) ==
    LET Keep(r) == r.status # NA IN SelectSeq(rule_results, Keep)

AggregateOf(reachable, rule_results) ==
    aggregate_status([result EXCEPT !.reachable = reachable,
                                    !.rule_results = rule_results])

\* C3: aggregate_status is FAIL for an unreachable layer, else FAIL if any
\* rule result is FAIL, else WARN if any is WARN, else PASS; it is the same
\* for every reordering of the rule results and adding or removing NA
\* results never changes it.
C3_AggregateStatus ==
    pc = "aggregated" =>
        LET rr == result.rule_results
            st == StatusesOf(rr)
        IN /\ result.overall_status =
                  (IF ~result.reachable THEN FAIL
                   ELSE IF FAIL \in st THEN FAIL
                   ELSE IF WARN \in st THEN WARN
                   ELSE PASS)
           /\ \A p \in Permutations(1..Len(rr)) :
                 AggregateOf(result.reachable, Permuted(rr, p))
                     = result.overall_status
           /\ AggregateOf(result.reachable, WithoutNA(rr)) = result.overall_status
           /\ AggregateOf(result.reachable,
                          Append(rr, RuleResult("extra", NA, "", NoEvidence)))
                  = result.overall_status

\* a reachable result holding a WARN before a FAIL and an NA entry
C3_Witness ==
    /\ pc = "aggregated"
    /\ result.reachable
    /\ Len(result.rule_results) >= 3
    /\ result.rule_results[1].status = WARN
    /\ result.rule_results[2].status = FAIL
    /\ result.rule_results[3].status = NA
    /\ result.overall_status = FAIL

\* positions of the FAIL and WARN entries, and the n-th of them
IssuePositions(rule_results) ==
    {i \in 1..Len(rule_results) : rule_results[i].status \in {FAIL, WARN}}

NthIssue(rule_results, n) ==
    LET pos == IssuePositions(rule_results)
        i == CHOOSE j \in pos : Cardinality({h \in pos : h < j}) = n - 1
    IN rule_results[i].rule_name \o ": " \o rule_results[i].message

\* C4: compute_top_issues is the "<rule_name>: <message>" strings of the
\* FAIL and WARN rule results, in list order, cut to the first 3 and joined
\* with "; "; all of them when fewer than 3, "" when none.
C4_TopIssues ==
    pc = "digested" =>
        LET rr == result.rule_results
            k == Cardinality(IssuePositions(rr))
        IN result.top_issues =
              (IF k = 0 THEN ""
               ELSE IF k = 1 THEN NthIssue(rr, 1)
               ELSE IF k = 2 THEN NthIssue(rr, 1) \o "; " \o NthIssue(rr, 2)
               ELSE NthIssue(rr, 1) \o "; " \o NthIssue(rr, 2) \o "; "
                        \o NthIssue(rr, 3))

\* four FAIL or WARN entries: the fourth is cut
C4_Witness ==
    /\ pc = "digested"
    /\ Len(result.rule_results) = 4
    /\ Cardinality(IssuePositions(result.rule_results)) = 4
    /\ result.top_issues =
          "reachability: too old; queryability: not available; "
              \o "metadata_completeness: too old"

---------------------------------------------------------------------------
(* Properties of the rule functions, checked under SpecRules *)

RuleCalled == \E i \in 1..Len(RuleNames) : pc = RuleNames[i]

\* C6: no call of a rule raises: it returns a RuleResult carrying the name
\* of the rule and one of the four statuses; when the body faulted the
\* status is FAIL (WARN for record_availability) and the evidence holds the
\* fault text under "error".
C6_RulesNeverRaise ==
    RuleCalled =>
        /\ ~escaped
        /\ ret.rule_name = pc
        /\ ret.status \in QAStatus
        /\ fault # NoFault =>
              /\ ret.status = (IF pc = "record_availability" THEN WARN ELSE FAIL)
              /\ "error" \in DOMAIN ret.evidence
              /\ ret.evidence.error = fault

\* geometry_sanity on a sample holding an element that is no dict
C6_Witness ==
    /\ pc = "geometry_sanity"
    /\ fault = AttributeErrorFeature
    /\ ~escaped
    /\ ret.status = FAIL
    /\ ret.evidence.error = AttributeErrorFeature

\* the seven components as the metadata shows them
HasDescription == metadata.description = "str"
HasGeometryType == metadata.geometryType \notin {"absent", "None"}
HasExtent == metadata.extent = "dict"
HasThreeFields == metadata.fields.k = "list" /\ metadata.fields.n >= 3
HasCapabilities == metadata.capabilities = "str"
HasMaxRecordCount == metadata.maxRecordCount.k = "int" /\ metadata.maxRecordCount.v # 0
HasPaginationFlag ==
    /\ metadata.advancedQueryCapabilities = "dict"
    /\ (metadata.supportsPagination \/ metadata.supportsQueryWithPagination)

Points(present, n) == IF present THEN n ELSE 0

\* C8: the score of metadata_completeness is 10 for the description, 20 for
\* the geometry type, 20 for the extent, 20 for a field list of at least 3
\* entries, 10 for the capabilities, 10 for maxRecordCount and 10 for the
\* pagination flag (present meaning non-empty); the status is PASS iff the
\* score is >= 70, WARN iff 40 <= score < 70 and FAIL iff score < 40; the
\* evidence holds the score whatever the status; absent metadata (and a body
\* that faulted) gives FAIL with score 0; all seven components give 100, the
\* four of description, geometry type, extent and fields give 70 and PASS,
\* and without one more 20-point component the status is WARN.
C8_MetadataCompleteness ==
    pc = "metadata_completeness" =>
        /\ "score" \in DOMAIN ret.evidence
        /\ LET score == ret.evidence.score
               four == HasDescription /\ ~HasCapabilities /\ ~HasMaxRecordCount
                          /\ ~HasPaginationFlag
           IN /\ (ret.status = PASS) <=> (score >= 70)
              /\ (ret.status = WARN) <=> (40 <= score /\ score < 70)
              /\ (ret.status = FAIL) <=> (score < 40)
              /\ (metadata.kind = "None" \/ fault # NoFault) =>
                    (ret.status = FAIL /\ score = 0)
              /\ (metadata.kind # "None" /\ fault = NoFault) =>
                    /\ score = Points(HasDescription, 10)
                                 + Points(HasGeometryType, 20)
                                 + Points(HasExtent, 20)
                                 + Points(HasThreeFields, 20)
                                 + Points(HasCapabilities, 10)
                                 + Points(HasMaxRecordCount, 10)
                                 + Points(HasPaginationFlag, 10)
                    /\ (HasDescription /\ HasGeometryType /\ HasExtent
                          /\ HasThreeFields /\ HasCapabilities
                          /\ HasMaxRecordCount /\ HasPaginationFlag) =>
                          (score = 100 /\ ret.status = PASS)
                    /\ (four /\ HasGeometryType /\ HasExtent /\ HasThreeFields) =>
                          (score = 70 /\ ret.status = PASS)
                    /\ (four /\ Points(HasGeometryType, 1) + Points(HasExtent, 1)
                                  + Points(HasThreeFields, 1) = 2) =>
                          (score = 50 /\ ret.status = WARN)

\* the 70-point boundary less the field list: two fields only
C8_Witness ==
    /\ pc = "metadata_completeness"
    /\ metadata.kind = "dict"
    /\ fault = NoFault
    /\ HasDescription /\ HasGeometryType /\ HasExtent
    /\ metadata.fields = [k |-> "list", n |-> 2]
    /\ ~HasCapabilities /\ ~HasMaxRecordCount /\ ~HasPaginationFlag
    /\ ret.status = WARN
    /\ ret.evidence.score = 50


\* the geometry counts as the sample shows them
EmptyGeometries ==
    {i \in 1..Len(features.items) :
        features.items[i].geometry.k \in {"absent", "emptydict"}}

InvalidGeometries ==
    {i \in 1..Len(features.items) :
        LET g == features.items[i].geometry
        IN g.k = "unparseable" \/ (g.k = "parsed" /\ ~g.valid)}

Family(geom_type) ==
    CASE geom_type \in {"point", "multipoint"} -> "Point"
      [] geom_type \in {"linestring", "multilinestring"} -> "Line"
      [] geom_type \in {"polygon", "multipolygon"} -> "Polygon"
      [] OTHER -> "Other"

MismatchedGeometries ==
    {i \in 1..Len(features.items) :
        LET g == features.items[i].geometry
        IN /\ g.k = "parsed"
           /\ config.expected_geometry \in {"Point", "Line", "Polygon"}
           /\ Family(g.type) # config.expected_geometry}

\* C9: geometry_sanity is NA when no features were sampled; otherwise, with
\* the percentages taken over the sample size, FAIL iff empty% > 25 or
\* invalid% > 25, else WARN iff empty% > 5 or invalid% > 5 or mismatch% > 10,
\* else PASS (a sample holding an element that is no feature faults: FAIL).
\* Mismatches alone never give FAIL; 30% empty gives FAIL, exactly 10%
\* empty with nothing invalid WARN, 0% of everything PASS.
C9_GeometrySanity ==
    pc = "geometry_sanity" =>
        IF NotFeatures(features) THEN ret.status = NA
        ELSE IF fault # NoFault THEN ret.status = FAIL
        ELSE LET n == Len(features.items)
                 e == Cardinality(EmptyGeometries)
                 v == Cardinality(InvalidGeometries)
                 m == Cardinality(MismatchedGeometries)
                 fails == e * 100 > 25 * n \/ v * 100 > 25 * n
                 warns == e * 100 > 5 * n \/ v * 100 > 5 * n \/ m * 100 > 10 * n
             IN /\ (ret.status = FAIL) <=> fails
                /\ (ret.status = WARN) <=> (~fails /\ warns)
                /\ (ret.status = PASS) <=> (~fails /\ ~warns)
                /\ (e = 0 /\ v = 0) => ret.status # FAIL
                /\ e * 10 = 3 * n => ret.status = FAIL
                /\ (e * 10 = n /\ v = 0) => ret.status = WARN
                /\ (e = 0 /\ v = 0 /\ m = 0) => ret.status = PASS

\* twenty features, one of them empty (exactly 5%), the others polygons
\* where points are expected: a WARN that only the mismatches cause
C9_Witness ==
    /\ pc = "geometry_sanity"
    /\ fault = NoFault
    /\ Len(features.items) = 20
    /\ Cardinality(EmptyGeometries) = 1
    /\ Cardinality(InvalidGeometries) = 0
    /\ Cardinality(MismatchedGeometries) = 19
    /\ ret.status = WARN

\* C10: pagination_support returns NA and issues no request when metadata
\* or count is absent or when count does not exceed the page-size limit
\* (maxRecordCount, 1000 when the metadata does not give it); otherwise it
\* issues exactly one page request, at the offset equal to that limit, and
\* returns PASS if the page holds a record, WARN if it holds none and FAIL
\* if the request fails.  A limit or count that cannot be compared faults:
\* FAIL and no request.
C10_PaginationSupport ==
    pc = "pagination_support" =>
        IF metadata.kind = "None" \/ count.k = "None"
        THEN ret.status = NA /\ calls = <<>>
        ELSE LET limit == IF metadata.maxRecordCount.k = "absent"
                          THEN JInt(1000) ELSE metadata.maxRecordCount
             IN IF limit.k # "int" \/ count.k # "int"
                THEN ret.status = FAIL /\ calls = <<>>
                ELSE IF count.v <= limit.v
                THEN ret.status = NA /\ calls = <<>>
                ELSE /\ Len(calls) = 1
                     /\ calls[1].op = "page_fetch"
                     /\ calls[1].arg = limit.v
                     /\ ret.status = (CASE calls[1].outcome = "records" -> PASS
                                        [] calls[1].outcome = "empty" -> WARN
                                        [] calls[1].outcome = "raise" -> FAIL)

\* 1001 records behind a limit of 1000: the page at offset 1000 is empty
C10_Witness ==
    /\ pc = "pagination_support"
    /\ count = JInt(1001)
    /\ calls = <<Call("page_fetch", 1000, "empty")>>
    /\ ret.status = WARN

\* the attribute table as the sample shows it
SampleColumns ==
    UNION {DOMAIN features.items[i].attributes : i \in 1..Len(features.items)}

NullRows(col) ==
    {i \in 1..Len(features.items) :
        \/ col \notin DOMAIN features.items[i].attributes
        \/ features.items[i].attributes[col] = "null"}

\* the fields whose null rate is above 80%
MostlyNullFields ==
    {col \in SampleColumns :
        Cardinality(NullRows(col)) * 5 > 4 * Len(features.items)}

\* C11 as stated: for a non-empty sample schema_sanity is WARN exactly when
\* at least 5 fields have a null rate above 80% (attribute names of a dict
\* never repeat), and PASS otherwise.
C11_SchemaSanityAsStated ==
    (pc = "schema_sanity" /\ ~NotFeatures(features) /\ fault = NoFault) =>
        /\ (ret.status = WARN) <=> (Cardinality(MostlyNullFields) >= 5)
        /\ (ret.status = PASS) <=> (Cardinality(MostlyNullFields) < 5)

\* C11 amended: schema_sanity is NA when no features were sampled; for a
\* non-empty sample it is WARN exactly when the attribute table is empty
\* (no feature has any attribute) or at least 5 fields have a null rate
\* above 80%, and PASS otherwise; with a non-empty table the evidence
\* records whether an ID-like field exists, and the status is the same with
\* and without one.
C11_SchemaSanity ==
    pc = "schema_sanity" =>
        IF NotFeatures(features) THEN ret.status = NA
        ELSE IF fault # NoFault THEN ret.status = FAIL
        ELSE LET warns == SampleColumns = {}
                             \/ Cardinality(MostlyNullFields) >= 5
             IN /\ (ret.status = WARN) <=> warns
                /\ (ret.status = PASS) <=> ~warns
                /\ SampleColumns = {} => ret.evidence = NoEvidence
                /\ SampleColumns # {} =>
                      /\ "has_objectid" \in DOMAIN ret.evidence
                      /\ ret.evidence.has_objectid =
                            (\E col \in SampleColumns : IsObjectIdLike(col))

\* a sample of features that carry no attributes: WARN without any field
C11_Witness ==
    /\ pc = "schema_sanity"
    /\ Len(features.items) = 2
    /\ fault = NoFault
    /\ SampleColumns = {}
    /\ ret.status = WARN
    /\ ret.message = "Empty attribute table"

\* a key of the extent's spatial reference as the metadata shows it
SrValue(key) ==
    IF metadata.extent = "dict" /\ metadata.spatialReference = "dict"
       /\ metadata[key].k # "absent"
    THEN metadata[key] ELSE JNone

\* the identifier: wkid, or latestWkid when wkid is missing, null or 0
Identifier ==
    IF Truthy(SrValue("wkid")) THEN SrValue("wkid") ELSE SrValue("latestWkid")

AllowList == {4326, 3857, 2263, 2264, 26918, 26919}

\* C12: spatial_reference is NA when metadata is absent; otherwise the
\* identifier is the extent's wkid, or latestWkid failing that; the status
\* is WARN if neither an identifier nor a textual definition is present,
\* WARN if an identifier is present and not one of 4326, 3857, 2263, 2264,
\* 26918, 26919, and PASS in every other case; the evidence of a WARN or
\* PASS holds the identifier (a spatial reference that cannot be read
\* faults: FAIL).  4326 gives PASS, 99999 gives WARN.
C12_SpatialReference ==
    pc = "spatial_reference" =>
        IF metadata.kind = "None" THEN ret.status = NA
        ELSE IF fault # NoFault THEN ret.status = FAIL
        ELSE LET id == Identifier
                 nothing == ~Truthy(id) /\ ~Truthy(SrValue("wkt"))
                 unusual == Truthy(id) /\ ~(id.k = "int" /\ id.v \in AllowList)
             IN /\ (ret.status = WARN) <=> (nothing \/ unusual)
                /\ (ret.status = PASS) <=> ~(nothing \/ unusual)
                /\ "wkid" \in DOMAIN ret.evidence
                /\ ret.evidence.wkid = id
                /\ id = JInt(4326) => ret.status = PASS
                /\ id = JInt(99999) => ret.status = WARN

\* no wkid, latestWkid 3857 and no textual definition: PASS on the fallback
C12_Witness ==
    /\ pc = "spatial_reference"
    /\ metadata.kind = "dict"
    /\ metadata.extent = "dict" /\ metadata.spatialReference = "dict"
    /\ metadata.wkid = JAbsent
    /\ metadata.latestWkid = JInt(3857)
    /\ metadata.wkt = JAbsent
    /\ ret.status = PASS
    /\ ret.evidence.wkid = JInt(3857)

\* the editing-info timestamp and the edit-date field name as the metadata
\* shows them
HasTimestamp ==
    /\ metadata.editingInfo = "dict"
    /\ Truthy(metadata.lastEditDate)

HasEditFieldName ==
    metadata.editFieldsInfo = "dict" /\ metadata.editDateField = "str"

\* C13: update_recency is NA when metadata is absent, when neither a
\* timestamp nor an edit-date field name is present and when only the field
\* name is present; with a timestamp it is WARN iff the age, the whole days
\* from the timestamp to now divided by 30.44, is strictly greater than the
\* threshold in months, and PASS otherwise, also when the age equals the
\* threshold (metadata that cannot be read faults: FAIL).
C13_UpdateRecency ==
    pc = "update_recency" =>
        IF metadata.kind = "None" THEN ret.status = NA
        ELSE IF fault # NoFault THEN ret.status = FAIL
        ELSE IF ~HasTimestamp
        THEN /\ ret.status = NA
             /\ (HasEditFieldName <=> "edit_field" \in DOMAIN ret.evidence)
        ELSE LET days == now - metadata.lastEditDate.v
             IN /\ (ret.status = WARN) <=> (days * 100 > threshold * 3044)
                /\ (ret.status = PASS) <=> (days * 100 <= threshold * 3044)
                /\ days * 100 = threshold * 3044 => ret.status = PASS

\* a layer edited 761 days ago against a threshold of 25 months: the age
\* equals the threshold
C13_Witness ==
    /\ pc = "update_recency"
    /\ metadata.kind = "dict"
    /\ fault = NoFault
    /\ HasTimestamp
    /\ now - metadata.lastEditDate.v = 761
    /\ threshold = 25
    /\ ret.status = PASS

\* C14: queryability is PASS whenever the count is present, a count of 0
\* included, WARN when the count is absent and the metadata present, FAIL
\* when both are absent.
C14_Queryability ==
    pc = "queryability" =>
        ret.status = (IF count # JNone THEN PASS
                      ELSE IF metadata.kind # "None" THEN WARN
                      ELSE FAIL)

\* a count of 0 on a layer without metadata: PASS
C14_Witness ==
    /\ pc = "queryability"
    /\ count = JInt(0)
    /\ metadata.kind = "None"
    /\ ret.status = PASS

\* C15: record_availability is WARN with evidence count None when the count
\* is absent, WARN with evidence count 0 when the count is 0, PASS with the
\* count in evidence when the count is greater than 0; it is never FAIL or
\* NA.
C15_RecordAvailability ==
    pc = "record_availability" =>
        /\ ret.status \in {WARN, PASS}
        /\ ret.evidence.count = count
        /\ count = JNone => ret.status = WARN
        /\ count = JInt(0) => ret.status = WARN
        /\ (count.k = "int" /\ count.v > 0) => ret.status = PASS

\* an empty layer: WARN, and the evidence says 0
C15_Witness ==
    /\ pc = "record_availability"
    /\ count = JInt(0)
    /\ ret.status = WARN
    /\ ret.evidence.count = JInt(0)

SampleRequested == \E i \in 1..Len(calls) : calls[i].op = "sample_features"
LastCall == calls[Len(calls)]

\* C16: a sample is requested exactly when the layer is reachable and the
\* count is present and greater than 0. An absent count and a sampling that
\* returns None do not end the run: it goes on to the nine rules, and
\* schema_sanity and geometry_sanity are NA when there is no sample.
C16_SamplingIsConditional ==
    /\ pc # "sample" =>
          (SampleRequested <=>
              (MetadataReturned /\ result.reachable
                 /\ count.k = "int" /\ count.v > 0))
    /\ (pc = "done" /\ fault # NoFault /\ calls # <<>>) =>
          /\ LastCall.op = "count_features" => LastCall.outcome # "None"
          /\ LastCall.op = "sample_features" => LastCall.outcome = "raise"
    /\ (pc = "done" /\ fault = NoFault /\ MetadataReturned) =>
          /\ Len(result.rule_results) = 9
          /\ \A i \in 1..9 : result.rule_results[i].rule_name = RuleNames[i]
          /\ NotFeatures(features) =>
                /\ result.rule_results[6].status = NA
                /\ result.rule_results[7].status = NA

\* a positive count whose sampling returned None: nine rules, two of them NA
C16_Witness ==
    /\ Returned
    /\ fault = NoFault
    /\ count.k = "int"
    /\ count.v > 0
    /\ SampleRequested
    /\ features.isNone
    /\ Len(result.rule_results) = 9
    /\ result.rule_results[6].status = NA
    /\ result.rule_results[7].status = NA

NineRulesRun == pc = "done" /\ fault = NoFault /\ Len(result.rule_results) = 9
Has(r, key) == key \in DOMAIN r.evidence

\* C18: after a full nine-rule evaluation the summary fields mirror the rule
\* evidence: metadata_score is the score of the metadata_completeness
\* evidence, pagination_ok the status of pagination_support,
\* pct_invalid_geometry and pct_empty_geometry the percentages of the
\* geometry_sanity evidence (0 when that rule is NA), last_edit_date the date
\* of the update_recency evidence (None when that rule is NA).
C18_SummaryMirrorsEvidence ==
    NineRulesRun =>
        LET rs == result.rule_results
        IN /\ Has(rs[3], "score") => result.metadata_score = rs[3].evidence.score
           /\ result.pagination_ok = rs[5].status
           /\ Has(rs[7], "pct_invalid") =>
                 result.pct_invalid_geometry = rs[7].evidence.pct_invalid
           /\ Has(rs[7], "pct_empty") =>
                 result.pct_empty_geometry = rs[7].evidence.pct_empty
           /\ rs[7].status = NA =>
                 /\ result.pct_invalid_geometry = 0
                 /\ result.pct_empty_geometry = 0
           /\ Has(rs[8], "last_edit_date") =>
                 result.last_edit_date = rs[8].evidence.last_edit_date
           /\ rs[8].status = NA => result.last_edit_date = JNone

\* a run whose sample holds an invalid geometry and whose metadata carries a
\* last edit date: none of the mirrored fields keeps its default
C18_Witness ==
    /\ NineRulesRun
    /\ result.metadata_score > 0
    /\ result.pagination_ok # "NA"
    /\ result.pct_invalid_geometry + result.pct_empty_geometry > 0
    /\ result.last_edit_date # JNone
    /\ Has(result.rule_results[7], "pct_invalid")
    /\ Has(result.rule_results[8], "last_edit_date")

\* the page that rule E was answered with, read back from the requests
PageAnswered ==
    IF \E i \in 1..Len(calls) : calls[i].op = "page_fetch"
    THEN CHOOSE page \in OrchPages :
           \E i \in 1..Len(calls) :
              calls[i].op = "page_fetch" /\ calls[i].outcome = PageOutcome(page)
    ELSE NoPage

C21_FormatIsInformational ==
    (pc = "done" /\ fault = NoFault /\ MetadataReturned) =>
        \A g \in BOOLEAN, pj \in BOOLEAN :
            Evaluated(config, metadata, count, features, FormatSupport(g, pj),
                      PageAnswered, now)
                = [result EXCEPT !.format_supported = FormatSupport(g, pj)]

\* a layer none of whose probes succeeded and which still is not a failure
C21_Witness ==
    /\ NineRulesRun
    /\ result.format_supported = "unknown"
    /\ result.overall_status = WARN
    /\ result.top_issues # ""

\* the external calls of one evaluation, in the order of the code
CallOrder ==
    <<"fetch_metadata", "count_features", "sample_features",
      "determine_format_support", "page_fetch">>

CallRank(op) == CHOOSE i \in 1..Len(CallOrder) : CallOrder[i] = op
Called(op) == \E i \in 1..Len(calls) : calls[i].op = op

\* C22: within one run the external calls happen in a fixed order, each at
\* most once: metadata, count, sample (only if count > 0), format probe,
\* page fetch of rule 5 (only if the count exceeds the page-size limit);
\* none but the metadata fetch happens unless that fetch returned metadata.
C22_CallOrder ==
    /\ \A i \in 1..Len(calls) : \E k \in 1..Len(CallOrder) : calls[i].op = CallOrder[k]
    /\ \A i, j \in 1..Len(calls) :
          i < j => CallRank(calls[i].op) < CallRank(calls[j].op)
    /\ calls # <<>> => calls[1].op = "fetch_metadata"
    /\ Len(calls) > 1 => calls[1].outcome = "value"
    /\ Called("sample_features") => (count.k = "int" /\ count.v > 0)
    /\ Called("page_fetch") =>
          /\ count.k = "int"
          /\ PageLimit(metadata).k = "int"
          /\ count.v > PageLimit(metadata).v
    /\ NineRulesRun =>
          /\ Called("count_features")
          /\ Called("determine_format_support")
          /\ (count.k = "int" /\ count.v > 0) => Called("sample_features")
          /\ (count.k = "int" /\ PageLimit(metadata).k = "int"
                /\ count.v > PageLimit(metadata).v) => Called("page_fetch")

\* a run that made all five calls
C22_Witness ==
    /\ NineRulesRun
    /\ Len(calls) = 5
    /\ calls[3].op = "sample_features"
    /\ calls[5].op = "page_fetch"

\* C27: in every returned result with reachable = TRUE and nine rule
\* results the reachability result is PASS and the queryability result is
\* PASS or WARN, never FAIL.
C27_NoFailFromFirstTwoRules ==
    (pc = "done" /\ result.reachable /\ Len(result.rule_results) = 9) =>
        /\ result.rule_results[1].rule_name = "reachability"
        /\ result.rule_results[1].status = PASS
        /\ result.rule_results[2].rule_name = "queryability"
        /\ result.rule_results[2].status \in {PASS, WARN}

\* a reachable layer whose count could not be fetched: queryability WARN
C27_Witness ==
    /\ NineRulesRun
    /\ result.reachable
    /\ count = JNone
    /\ result.rule_results[2].status = WARN

\* C28: for every returned result, a non-empty errors list means
\* overall_status FAIL; a result with overall_status PASS or WARN has
\* reachable = TRUE, no errors, nine rule results and the overall_status that
\* aggregate_status gives for its rule results. The overall_status is never
\* NA.
C28_ErrorsMeanFail ==
    pc = "done" =>
        /\ result.overall_status \in {PASS, WARN, FAIL}
        /\ result.errors # <<>> => result.overall_status = FAIL
        /\ result.overall_status \in {PASS, WARN} =>
              /\ result.reachable
              /\ result.errors = <<>>
              /\ Len(result.rule_results) = 9
              /\ result.overall_status = aggregate_status(result)

\* a layer the run gave up on after it was found reachable
C28_Witness ==
    /\ pc = "done"
    /\ result.reachable
    /\ result.errors # <<>>
    /\ result.rule_results = <<>>
    /\ result.overall_status = FAIL

\* C29: null_fields_over_80pct is 0 or at least 5: it is the number of
\* sampled fields with a null rate above 80% when that number is 5 or more,
\* and 0 when one to four fields are above 80% or schema_sanity is NA.
C29_NullFieldCount ==
    /\ result.null_fields_over_80pct = 0 \/ result.null_fields_over_80pct >= 5
    /\ NineRulesRun =>
          /\ result.rule_results[6].status = NA =>
                result.null_fields_over_80pct = 0
          /\ (~NotFeatures(features) /\ FeatureFault(features) = NoFault) =>
                result.null_fields_over_80pct =
                    (IF Cardinality(MostlyNullFields) >= 5
                     THEN Cardinality(MostlyNullFields) ELSE 0)

\* a sample with four mostly-null fields: the field stays 0
C29_Witness ==
    /\ NineRulesRun
    /\ ~NotFeatures(features)
    /\ FeatureFault(features) = NoFault
    /\ Cardinality(MostlyNullFields) = 4
    /\ result.null_fields_over_80pct = 0

---------------------------------------------------------------------------
(* Properties of the batch driver, checked under SpecBatch *)

SampleRequests == {i \in 1..Len(calls) : calls[i].op = "sample_features"}

\* C17 (as claimed): every sample request asks for the number of features
\* the caller supplied with --sample-size.
C17_SampleSizeIsCallerSupplied ==
    \A i \in SampleRequests : calls[i].arg = args.sample_size

\* the layers whose evaluation was started, in the order of the calls
RECURSIVE Evaluations(_)
Evaluations(cs) ==
    IF cs = <<>> THEN <<>>
    ELSE IF cs[1].op = "run_qa_for_layer"
    THEN <<cs[1].arg>> \o Evaluations(Tail(cs))
    ELSE Evaluations(Tail(cs))

\* the position in the configuration of the layer a result belongs to
ConfigIndex(r) ==
    CHOOSE i \in 0..Len(configs) :
        IF \E k \in 1..Len(configs) : configs[k].layer_name = r.layer_name
        THEN i > 0 /\ configs[i].layer_name = r.layer_name
        ELSE i = 0

Failed(op) ==
    {calls[i].arg : i \in {k \in 1..Len(calls) :
                              calls[k].op = op /\ calls[k].outcome = "raise"}}

LoopOver == pc \in {"return 1", "reports"}

\* C20: in cli.run_pipeline a layer whose evaluation or issue-file write
\* raises does not stop the batch: when the loop is over every layer of the
\* configuration has been evaluated, once and in order; each configuration
\* entry contributes at most one result and the results keep the order of
\* the configuration.
C20_BatchGoesOn ==
    /\ LoopOver => Evaluations(calls) = [i \in 1..Len(configs) |-> i]
    /\ ~LoopOver =>
          Evaluations(calls) =
              [i \in 1..(IF pc = "write" THEN idx ELSE idx - 1) |-> i]
    /\ \A j \in 1..Len(results) : ConfigIndex(results[j]) > 0
    /\ \A j, k \in 1..Len(results) :
          j < k => ConfigIndex(results[j]) < ConfigIndex(results[k])
    /\ Len(results) = Len(Evaluations(calls)) - Cardinality(Failed("run_qa_for_layer"))

\* the evaluation of the first layer raised, the issue file of the second
\* could not be written, and the third layer was still evaluated
C20_Witness ==
    /\ pc = "reports"
    /\ Len(configs) = 3
    /\ Failed("run_qa_for_layer") = {1}
    /\ Failed("write_issue_json") = {2}
    /\ Len(results) = 2
    /\ results[2].layer_name = configs[3].layer_name

---------------------------------------------------------------------------
(* Properties of sample_features, checked under SpecSample *)

RECURSIVE Records(_)
Records(cs) == IF cs = <<>> THEN 0 ELSE cs[1].n + Records(Tail(cs))

RequestFailed == \E i \in 1..Len(calls) : calls[i].outcome = "raise"
NoOversizedPage == \A i \in 1..Len(calls) : calls[i].n <= calls[i].limit

SamplingIsBounded ==
    /\ \A i \in 1..Len(calls) : calls[i].arg = Records(SubSeq(calls, 1, i - 1))
    /\ \A i \in 1..(Len(calls) - 1) :
          /\ calls[i].outcome = "value"
          /\ calls[i].n > 0
          /\ calls[i].n >= calls[i].limit
    /\ pc = "while" => (~features.isNone /\ Collected >= Len(calls))
    /\ Len(calls) <= sample_size
    /\ (pc = "returned" /\ fault = NoFault) =>
          /\ ~features.isNone
          /\ Collected = Records(calls)
          /\ NoOversizedPage => Collected <= sample_size
    /\ RequestFailed => (pc = "returned" /\ features.isNone)

\* C23: sample_features terminates for every sequence of page responses:
\* every iteration ends the loop or adds a feature. It stops at the first
\* page that is empty or shorter than requested, requests each page at the
\* offset equal to the number of features collected, returns at most
\* sample_size features when no page holds more than requested, and returns
\* None when a page request fails.
C23_SampleTerminates == []SamplingIsBounded /\ <>(pc = "returned")

\* two full pages of one record, then a page request that fails: the two
\* pages are discarded
C23_Witness ==
    /\ pc = "returned"
    /\ Len(calls) = 3
    /\ calls[3].outcome = "raise"
    /\ calls[3].arg = 2
    /\ features.isNone

---------------------------------------------------------------------------
(* Properties of _make_request, checked under SpecRequest *)

\* C24 (as claimed): a request is attempted once plus at most `retries`
\* times, so a client built with retries = 0 attempts a failing request
\* exactly once.
C24_AttemptsFollowRetries == attempts <= 1 + retries

---------------------------------------------------------------------------
(* Properties of the results of a batch, checked under SpecBatch *)

ListsOf(r) == OwnLists(ConfigIndex(r))

ListsAreOwned ==
    /\ \A j \in 1..Len(results) :
          /\ ListsOf(results[j]) # 0
          /\ heap[ListsOf(results[j])].rule_results = results[j].rule_results
          /\ heap[ListsOf(results[j])].errors = results[j].errors
    /\ \A j, k \in 1..Len(results) :
          j # k => ListsOf(results[j]) # ListsOf(results[k])
    /\ heap[0] = NoLists

C26_CountsAddUp ==
    /\ \A j \in 1..Len(results) : results[j].overall_status \in {PASS, WARN, FAIL}
    /\ pc = "reports" =>
          /\ run_metadata.total_layers = Len(results)
          /\ run_metadata.pass_count + run_metadata.warn_count
               + run_metadata.fail_count = run_metadata.total_layers

\* a batch with a passing and a failing layer, none of them WARN, whose
\* passing layer has rules that are NA
C26_Witness ==
    /\ pc = "reports"
    /\ run_metadata.pass_count = 1
    /\ run_metadata.fail_count = 1
    /\ run_metadata.warn_count = 0
    /\ \E j \in 1..Len(results) :
          /\ results[j].overall_status = PASS
          /\ NA \in StatusesOf(results[j].rule_results)

---------------------------------------------------------------------------
(* Properties of write_issue_json, checked under SpecIssue *)

\* C30 (as claimed): with pairwise distinct layer names every layer's issue
\* file has a path of its own, so no issue file is replaced by that of
\* another layer of the batch.
C30_DistinctIssueFiles ==
    /\ Cardinality(DOMAIN files) = idx - 1
    /\ \A i \in 1..(idx - 1) :
          files[OutputPath(configs[i].layer_name)] = configs[i].layer_name

===========================================================================
